---- MODULE Spec2Model ----
(***************************************************************************)
(* The bit-banged One-Wire bus driver avr_1wire (src/lib/sensors/          *)
(* avr_1wire.cpp): the line primitives, the byte transfers, the identifier *)
(* table and the ROM search, run by one task under a preemptive scheduler, *)
(* against devices that follow the One-Wire ROM protocol.                  *)
(***************************************************************************)
EXTENDS Integers, Sequences, FiniteSets, TLC

\* ------------------------------------------------------------ constants

\* Size of the identifier table.
AOWI_NUM_IDS == 3

\* Retry ceiling of the presence wait loops (F_CPU / 100 in the source; the
\* clock rate is not fixed by the repository, the model runs a small value).
AOWI_PRES_END == 3

\* Default reset pulse count (F_CPU / 30000 in the source, 16 MHz taken).
AOWI_RESET_D == 533

\* Number of bits of an identifier walked by match_ROM and search.
ID_BITS == 64

\* "No conflict seen" marker of search.
NO_CONF == 99

\* ROM commands: 0xF0, 0x55, 0x33 and 0xCC.
CMD_SEARCH_ROM == 240
CMD_MATCH_ROM == 85
CMD_READ_ROM == 51
CMD_SKIP_ROM == 204

\* Function commands of the temperature sensors: 0x44, 0x4E and 0xBE.
CMD_CONVERT == 68
CMD_WRITE_PAD == 78
CMD_READ_PAD == 190

\* Chip type (lowest byte of the identifier) of a DS1822, 0x22.
DS1822_TYPE_ID == 34

\* Return value of the find operations when nothing matches, 0xFF.
NOT_FOUND == 255

\* Polls of the conversion wait of temperature after which the error value is
\* set (40000 in the source; the model runs a small value).
DS182X_RETRIES == 2

\* Retries of temperature when the reading is not reasonable.
DS182X_MAX_TOUT == 3

\* --------------------------------------------------------- bit helpers

Pow2(n) == 2 ^ n

\* Bit k (0 = least significant) of the natural number x.
BitOf(x, k) == (x \div Pow2(k)) % 2

\* a & b, a | b and a & ~b on 8-bit values, bit by bit.
And8(a, b) ==
    LET s[k \in 0..8] ==
          IF k = 8 THEN 0 ELSE BitOf(a, k) * BitOf(b, k) * Pow2(k) + s[k + 1]
    IN  s[0]

Or8(a, b) ==
    LET s[k \in 0..8] ==
          IF k = 8 THEN 0
          ELSE (IF BitOf(a, k) + BitOf(b, k) > 0 THEN Pow2(k) ELSE 0) + s[k + 1]
    IN  s[0]

AndNot8(a, b) ==
    LET s[k \in 0..8] ==
          IF k = 8 THEN 0 ELSE BitOf(a, k) * (1 - BitOf(b, k)) * Pow2(k) + s[k + 1]
    IN  s[0]

\* Shl8 on a variable wider than 8 bits: the bit shifted out is kept.
Shl8_NoWrap(a) == a * 2

\* uint8_t shifts: the result is cut to 8 bits.
Shl8(a) == (a * 2) % 256

\* The mask of write_byte_rev moving two places at a time.
Shr8_ByTwo(a) == a \div 4

Shr8(a) == a \div 2

\* ------------------------------------------------------- delay counts

\* A value stored in a uint16_t.
U16(x) == x % 65536

\* The counts of the delay loops for a processor clock of F Hz, as the
\* header derives them: each quotient is computed in long arithmetic and then
\* cast to uint16_t.
RESET_D(F) == U16(F \div 30000)

PRES_D(F) == U16(F \div 250000)

PRES_END(F) == U16(F \div 100)

D_1us(F) == U16(IF F \div 6000000 > 0 THEN F \div 6000000 ELSE 1)

D_15us(F) == U16(F \div 1800000)

D_45us(F) == U16(D_15us(F) * 3)

D_90us(F) == U16(D_15us(F) * 6)

\* ------------------------------------------------------- identifiers

\* AOWI_device_ID: the union of num64 and bytes[8]; the target is
\* little-endian, so bytes[0] is the least significant byte of num64.
Byte == 0..255

ID8(b0, b1, b2, b3, b4, b5, b6, b7) ==
    [k \in 0..7 |->
        CASE k = 0 -> b0 [] k = 1 -> b1 [] k = 2 -> b2 [] k = 3 -> b3
          [] k = 4 -> b4 [] k = 5 -> b5 [] k = 6 -> b6 [] OTHER -> b7]

ZeroID == [k \in 0..7 |-> 0]

\* num64 comparison of two identifiers: the most significant differing byte
\* decides.
Less64(x, y) ==
    \E k \in 0..7 :
        /\ x[k] < y[k]
        /\ \A j \in (k + 1)..7 : x[j] = y[j]

\* Bit k (0..63) of the 64-bit value of an identifier.
IdBit(x, k) == BitOf(x[k \div 8], k % 8)

\* ------------------------------------------------- devices on the bus

\* Identifiers of the devices that may be wired to the line.
DevA == ID8(\H7A, \HEE, \HDD, \HCC, \HBB, \HAA, \H10, \H00)

DevB == ID8(\H5B, \H44, \H33, \H22, \H11, \H22, \H00, \H00)

DevC == ID8(\H28, \H01, \H00, \H00, \H00, \H00, \H00, \HC4)

DevD == ID8(\H5B, \H45, \H33, \H22, \H11, \H22, \H00, \H80)

DevicePool == {DevA, DevB, DevC, DevD}

\* Two DS1822 temperature sensors.
SensT == ID8(\H22, \H50, \H00, \H00, \H00, \H00, \H00, \H3C)

SensU == ID8(\H22, \H91, \H01, \H00, \H00, \H00, \H00, \H7E)

\* The temperature sensors among the devices S.
Sensors(S) == {x \in S : x[0] = DS1822_TYPE_ID}

\* The 16-bit reading a sensor holds in the first two bytes of its
\* scratchpad, here the value of bytes 1 and 2 of its identifier: 80 for
\* SensT and 401 for SensU, in sixteenths of a degree.
Scratch(x) == x[1] + 256 * x[2]

\* Protocol state shared by the devices: what they are doing since the last
\* reset pulse, which of them still take part, the bit position they are at,
\* the phase inside one search position (0: send bit, 1: send complement,
\* 2: listen) and the command bits taken so far.
DevIdle == [mode |-> "idle", part |-> {}, bit |-> 0, phase |-> 0, cmd |-> 0]

DevMode(m, p) == [mode |-> m, part |-> p, bit |-> 0, phase |-> 0, cmd |-> 0]

\* A reset pulse: every connected device answers and waits for a ROM command.
DevAfterReset(ln, ds) == IF ln = "ok" THEN DevMode("rom", ds) ELSE DevIdle

\* The command byte is complete.
DevDecode(d, c) ==
    CASE c = CMD_SEARCH_ROM -> DevMode("search", d.part)
      [] c = CMD_MATCH_ROM -> DevMode("match", d.part)
      [] c = CMD_READ_ROM -> DevMode("read", d.part)
      [] OTHER -> DevMode("func", d.part)

\* The function command byte taken by the selected temperature sensors is
\* complete: they convert, send their scratchpad, or take what follows.
FuncDecode(d, c) ==
    CASE c = CMD_CONVERT -> DevMode("convert", Sensors(d.part))
      [] c = CMD_READ_PAD -> DevMode("pad", Sensors(d.part))
      [] OTHER -> DevMode("store", Sensors(d.part))

\* The devices after a write slot carrying bit v.
DevAfterWrite(d, v) ==
    CASE d.mode = "rom" ->
            IF d.bit < 7
            THEN [d EXCEPT !.cmd = d.cmd + v * Pow2(d.bit), !.bit = d.bit + 1]
            ELSE DevDecode(d, d.cmd + v * Pow2(d.bit))
      [] d.mode = "match" ->
            LET p == {x \in d.part : IdBit(x, d.bit) = v} IN
            IF d.bit < ID_BITS - 1
            THEN [d EXCEPT !.part = p, !.bit = d.bit + 1]
            ELSE DevMode("func", p)
      [] d.mode = "search" /\ d.phase < 2 ->
            [d EXCEPT !.phase = d.phase + 1]
      [] d.mode = "search" /\ d.phase = 2 ->
            LET p == {x \in d.part : IdBit(x, d.bit) = v} IN
            IF d.bit < ID_BITS - 1
            THEN [d EXCEPT !.part = p, !.bit = d.bit + 1, !.phase = 0]
            ELSE DevMode("func", p)
      [] d.mode = "read" ->
            IF d.bit < ID_BITS - 1
            THEN [d EXCEPT !.bit = d.bit + 1]
            ELSE DevMode("func", d.part)
      [] d.mode = "func" /\ Sensors(d.part) # {} ->
            IF d.bit < 7
            THEN [d EXCEPT !.cmd = d.cmd + v * Pow2(d.bit), !.bit = d.bit + 1]
            ELSE FuncDecode(d, d.cmd + v * Pow2(d.bit))
      [] d.mode = "pad" ->
            IF d.bit < 15
            THEN [d EXCEPT !.bit = d.bit + 1]
            ELSE DevMode("store", d.part)
      [] OTHER -> d

\* Wired-AND of what the participating devices drive in a read slot.
WiredAnd(S) == IF 0 \in S THEN 0 ELSE 1

\* The values the line can show at the sample of a read slot.
LineSamples(ln, d, q) ==
    CASE ln = "short" -> {0}
      [] ln = "open" -> {1}
      [] ln = "echo" -> IF q = <<>> THEN {1} ELSE {Head(q)}
      [] d.mode = "search" /\ d.phase = 0 ->
            {WiredAnd({IdBit(x, d.bit) : x \in d.part})}
      [] d.mode = "search" /\ d.phase = 1 ->
            {WiredAnd({1 - IdBit(x, d.bit) : x \in d.part})}
      [] d.mode = "read" ->
            {WiredAnd({IdBit(x, d.bit) : x \in d.part})}
      [] d.mode = "func" /\ d.part \ Sensors(d.part) # {} -> {0, 1}
      [] d.mode = "convert" /\ d.part # {} -> {0, 1}
      [] d.mode = "pad" ->
            {WiredAnd({BitOf(Scratch(x), d.bit) : x \in d.part})}
      [] OTHER -> {1}

\* The devices after a read slot: a device that is listening takes the short
\* low pulse of a read slot for a written 1.
DevAfterRead(d) == DevAfterWrite(d, 1)

\* The values the line can show while the master waits for the end of the
\* presence pulse, at poll number t: a device holds the line low for at most
\* AOWI_PRES_END polls.
PresenceSamples(ln, d, t) ==
    CASE ln = "short" -> {0}
      [] ln = "ok" /\ d.mode = "rom" /\ d.part # {} ->
            IF t < 0 THEN {0} ELSE IF t < AOWI_PRES_END THEN {0, 1} ELSE {1}
      [] OTHER -> {1}

\* ------------------------------------------------------------- state

VARIABLES
    identifiers,        \* the table of device identifiers
    reset_pulse_dur,    \* calibrated reset pulse count
    data_mask,          \* the pin's bit mask, 1 << data_bit
    p_serial,           \* TRUE if a serial device for diagnostics is attached
    dbg,                \* the last diagnostic sent to the serial device
    data_ddr,           \* the data direction register of the pin's port
    data_outport,       \* the output register of the pin's port
    critical,           \* nesting depth of portENTER_CRITICAL
    running,            \* which task has the processor: "bus" or "other"
    stack,              \* call stack of the bus task, innermost frame last
    ret,                \* what the last finished call returned
    ch,                 \* the caller's byte filled by read_byte
    sent,               \* bits written in write slots since the last reset
    devs,               \* identifiers of the devices wired to the line
    line,               \* "ok", "short" (stuck low), "open", "echo"
    dev,                \* protocol state of the devices
    echo,               \* bits an echoing line has still to play back
    minPulse,           \* shortest reset pulse count the devices answer
    F_CPU,              \* the processor clock rate the program is built for, Hz
    my_ds182x,          \* the temperature sensor driver: type_ID and ID_index
    data                \* the two bytes of the union data of temperature

vars == <<identifiers, reset_pulse_dur, data_mask, p_serial, dbg, data_ddr,
          data_outport, critical, running, stack, ret, ch, sent, devs, line,
          dev, echo, minPulse, F_CPU, my_ds182x, data>>

\* What the build and the constructor fix for the life of the object.
cfgVars == <<data_mask, p_serial, F_CPU>>

busVars == <<identifiers, reset_pulse_dur, cfgVars, dbg, my_ds182x, data>>

pinVars == <<data_ddr, data_outport>>

\* The pin's bit of the data direction register (1: output) and of the
\* output register (1: high, or pull-up on while the pin is an input).
ddr == IF And8(data_ddr, data_mask) # 0 THEN 1 ELSE 0

outp == IF And8(data_outport, data_mask) # 0 THEN 1 ELSE 0

envVars == <<devs, line, dev, echo, minPulse>>

NoRet == [fn |-> "none"]

Top == stack[Len(stack)]

Idle == stack = <<>>

\* The bus task is inside function fn and has the processor.
At(fn) == stack # <<>> /\ Top.fn = fn /\ running = "bus"

Goto(f, l) == [f EXCEPT !.pc = l]

SetTop(f) == stack' = [stack EXCEPT ![Len(stack)] = f]

\* The top frame becomes f and calls g.
Call(f, g) == stack' = Append([stack EXCEPT ![Len(stack)] = f], g)

Return(r) ==
    /\ stack' = SubSeq(stack, 1, Len(stack) - 1)
    /\ ret' = r

\* The master holds the line low.
MasterLow == ddr = 1 /\ outp = 0

\* ------------------------------------------------------ bit time slots

\* The statements of the three slot functions, in program order:
\*   ENTER / EXIT   portENTER_CRITICAL / portEXIT_CRITICAL
\*   out0 / out1    data_outport &= ~data_mask / data_outport |= data_mask
\*   low / rel      data_ddr |= data_mask / data_ddr &= ~data_mask
\*   sample         temp_byte = data_inport
\*   delay          the 90 us delay loop write_1 runs after its critical section
\* (the other delay loops change no state and are part of the statement
\* before them).
PinStmts == {"out0", "out1", "low", "rel"}

\* The register a pin statement reads, and the registers after it has
\* written back the value worked out from what it read (loaded).
PinLoad(st) == IF st \in {"out0", "out1"} THEN data_outport ELSE data_ddr

\* The statement that clears the pin's output bit writing 0 to the whole
\* register.
PinStore_ClearsAll(st, loaded) ==
    /\ data_outport' = CASE st = "out0" -> 0
                         [] st = "out1" -> Or8(loaded, data_mask)
                         [] OTHER -> data_outport
    /\ data_ddr' = CASE st = "low" -> Or8(loaded, data_mask)
                     [] st = "rel" -> AndNot8(loaded, data_mask)
                     [] OTHER -> data_ddr

PinStore(st, loaded) ==
    /\ data_outport' = CASE st = "out0" -> AndNot8(loaded, data_mask)
                         [] st = "out1" -> Or8(loaded, data_mask)
                         [] OTHER -> data_outport
    /\ data_ddr' = CASE st = "low" -> Or8(loaded, data_mask)
                     [] st = "rel" -> AndNot8(loaded, data_mask)
                     [] OTHER -> data_ddr

\* write_0 returning without turning the pull-up back on.
write_0_body_NoPullup == <<"ENTER", "out0", "low", "rel", "EXIT">>

write_0_body == <<"ENTER", "out0", "low", "rel", "out1", "EXIT">>

write_1_body == <<"ENTER", "out0", "low", "rel", "out1", "EXIT", "delay">>

\* read_bit leaving its critical section before it samples the line.
read_bit_body_EarlyExit ==
    <<"ENTER", "out0", "low", "rel", "out1", "EXIT", "sample">>

read_bit_body == <<"ENTER", "out0", "low", "rel", "out1", "sample", "EXIT">>

\* awi_dl is the count the last AOWI_DELAY of the slot ran to.
NewSlot(fn) == [fn |-> fn, pc |-> 1, temp |-> 0, awi_dl |-> 0]

\* The AOWI_DELAY that follows statement st of slot function fn, if any: its
\* count, else the count old of the delay before.
DelayAfter(fn, st, old) ==
    CASE st = "low" -> IF fn = "write_0" THEN D_90us(F_CPU) ELSE D_1us(F_CPU)
      [] st = "out1" /\ fn = "write_0" -> D_1us(F_CPU)
      [] st = "out1" /\ fn = "read_bit" -> D_15us(F_CPU)
      [] st = "sample" -> D_45us(F_CPU)
      [] st = "delay" -> D_90us(F_CPU)
      [] OTHER -> old

\* What a slot function returns: only read_bit returns a value.
SlotResult(f) ==
    IF f.fn = "read_bit" THEN [fn |-> "read_bit", val |-> f.temp = 1] ELSE NoRet

\* One statement of slot function fn, whose body is body and which writes
\* bit wbit (-1: a read slot). The devices take the written bit when the
\* master lets go of the line; the last statement returns to the caller.
SlotStep(fn, body, wbit) ==
    /\ At(fn)
    /\ LET f == Top
           st == body[f.pc]
           v == IF line = "echo" /\ echo # <<>> THEN Head(echo) ELSE 1
           g == [f EXCEPT !.pc = f.pc + 1, !.awi_dl = DelayAfter(fn, st, f.awi_dl)]
       IN  /\ \E smp \in (IF st = "sample" THEN LineSamples(line, dev, echo) ELSE {0}) :
                LET h == IF st = "sample" THEN [g EXCEPT !.temp = smp] ELSE g IN
                IF f.pc = Len(body)
                THEN Return(SlotResult(h))
                ELSE SetTop(h) /\ ret' = ret
           /\ critical' = CASE st = "ENTER" -> critical + 1
                            [] st = "EXIT" -> critical - 1
                            [] OTHER -> critical
           /\ PinStore(st, PinLoad(st))
           /\ dev' = CASE st = "rel" /\ MasterLow /\ wbit >= 0 -> DevAfterWrite(dev, wbit)
                       [] st = "sample" -> DevAfterRead(dev)
                       [] OTHER -> dev
           /\ echo' = CASE st = "rel" /\ MasterLow /\ wbit >= 0 /\ line = "echo" ->
                              Append(echo, wbit)
                        [] st = "sample" /\ echo # <<>> -> Tail(echo)
                        [] OTHER -> echo
           /\ sent' = IF st = "rel" /\ MasterLow /\ wbit >= 0
                      THEN Append(sent, wbit) ELSE sent
    /\ UNCHANGED <<busVars, running, ch, devs, line, minPulse>>

write_0 == SlotStep("write_0", write_0_body, 0)

write_1 == SlotStep("write_1", write_1_body, 1)

read_bit == SlotStep("read_bit", read_bit_body, -1)

\* ------------------------------------------------------ byte transfers

NewWriteByte(b) == [fn |-> "write_byte", pc |-> "loop", the_byte |-> b, bmask |-> 1]

\* The loop test of write_byte: bmask > 0.
WriteByteMore(bmask) == bmask > 0

write_byte ==
    /\ At("write_byte")
    /\ LET f == Top IN
       \/ /\ f.pc = "loop"
          /\ WriteByteMore(f.bmask)
          /\ Call(Goto(f, "next"),
                  NewSlot(IF And8(f.the_byte, f.bmask) # 0 THEN "write_1" ELSE "write_0"))
          /\ ret' = ret
       \/ /\ f.pc = "loop"
          /\ ~WriteByteMore(f.bmask)
          /\ Return([fn |-> "write_byte", val |-> TRUE, the_byte |-> f.the_byte])
       \/ /\ f.pc = "next"
          /\ SetTop([f EXCEPT !.bmask = Shl8(f.bmask), !.pc = "loop"])
          /\ ret' = ret
    /\ UNCHANGED <<busVars, pinVars, critical, running, ch, sent, envVars>>

NewWriteByteRev(b) ==
    [fn |-> "write_byte_rev", pc |-> "loop", the_byte |-> b, bmask |-> \H80]

\* write_byte with the mask starting at 0x80 and moving down.
write_byte_rev ==
    /\ At("write_byte_rev")
    /\ LET f == Top IN
       \/ /\ f.pc = "loop"
          /\ WriteByteMore(f.bmask)
          /\ Call(Goto(f, "next"),
                  NewSlot(IF And8(f.the_byte, f.bmask) # 0 THEN "write_1" ELSE "write_0"))
          /\ ret' = ret
       \/ /\ f.pc = "loop"
          /\ ~WriteByteMore(f.bmask)
          /\ Return([fn |-> "write_byte_rev", val |-> TRUE, the_byte |-> f.the_byte])
       \/ /\ f.pc = "next"
          /\ SetTop([f EXCEPT !.bmask = Shr8(f.bmask), !.pc = "loop"])
          /\ ret' = ret
    /\ UNCHANGED <<busVars, pinVars, critical, running, ch, sent, envVars>>

\* read_byte (&x): dst says where x is, the caller's byte ch, a byte of the
\* union data of temperature, or byte number
\* index of identifiers[0].
CallerByte == [in |-> "ch", index |-> 0]

\* read_ID filling the bytes of the entry from the top down.
TableByte_Reversed(index) == [in |-> "identifiers", index |-> 7 - index]

TableByte(index) == [in |-> "identifiers", index |-> index]

\* data.bytes[index].
DataByte(index) == [in |-> "data", index |-> index]

NewReadByte(dst) ==
    [fn |-> "read_byte", pc |-> "zero", bmask |-> 1, dst |-> dst,
     loaded |-> FALSE, tmp |-> 0]

\* The statement after pin statement st in the sequence out0, low, rel, out1;
\* last is what follows out1.
AfterPin(st, last) ==
    CASE st = "out0" -> "low" [] st = "low" -> "rel" [] st = "rel" -> "out1"
      [] OTHER -> last

Deref(dst) ==
    CASE dst.in = "ch" -> ch
      [] dst.in = "data" -> data[dst.index]
      [] OTHER -> identifiers[0][dst.index]

\* The byte read_ID reads landing in entry 1.
Store_EntryOne(dst, v) ==
    /\ ch' = IF dst.in = "ch" THEN v ELSE ch
    /\ data' = IF dst.in = "data" THEN [data EXCEPT ![dst.index] = v] ELSE data
    /\ identifiers' = IF dst.in = "identifiers"
                      THEN [identifiers EXCEPT ![1][dst.index] = v] ELSE identifiers

Store(dst, v) ==
    /\ ch' = IF dst.in = "ch" THEN v ELSE ch
    /\ data' = IF dst.in = "data" THEN [data EXCEPT ![dst.index] = v] ELSE data
    /\ identifiers' = IF dst.in = "identifiers"
                      THEN [identifiers EXCEPT ![0][dst.index] = v] ELSE identifiers

\* read_byte reporting a problem when every bit was read as 1, as on a line
\* with no device.
read_byte_result_FlagsAllOnes(the_byte) == the_byte = \HFF

\* What read_byte returns after it has read the_byte: false, there is no
\* test of the data.
read_byte_result(the_byte) == FALSE

\* The bit read_byte puts into the byte for a line sampled as smp.
ReadByteBit(x, bmask, smp) == IF smp = 1 THEN Or8(x, bmask) ELSE x

read_byte ==
    /\ At("read_byte")
    /\ LET f == Top IN
       \/ /\ f.pc = "zero"
          /\ Store(f.dst, 0)
          /\ SetTop(Goto(f, "loop"))
          /\ UNCHANGED <<pinVars, ret, dev, echo>>
       \/ /\ f.pc = "loop"
          /\ f.bmask > 0
          /\ SetTop(Goto(f, "out0"))
          /\ UNCHANGED <<identifiers, ch, data, pinVars, ret, dev, echo>>
       \/ /\ f.pc = "loop"
          /\ ~(f.bmask > 0)
          /\ Return([fn |-> "read_byte", val |-> read_byte_result(Deref(f.dst))])
          /\ UNCHANGED <<identifiers, ch, data, pinVars, dev, echo>>
       \/ /\ f.pc \in PinStmts
          /\ ~f.loaded
          /\ SetTop([f EXCEPT !.tmp = PinLoad(f.pc), !.loaded = TRUE])
          /\ UNCHANGED <<identifiers, ch, data, pinVars, ret, dev, echo>>
       \/ /\ f.pc \in PinStmts
          /\ f.loaded
          /\ PinStore(f.pc, f.tmp)
          /\ SetTop([f EXCEPT !.pc = AfterPin(f.pc, "sample"), !.loaded = FALSE])
          /\ UNCHANGED <<identifiers, ch, data, ret, dev, echo>>
       \/ /\ f.pc = "sample"
          /\ \E smp \in LineSamples(line, dev, echo) :
                Store(f.dst, ReadByteBit(Deref(f.dst), f.bmask, smp))
          /\ dev' = DevAfterRead(dev)
          /\ echo' = IF echo # <<>> THEN Tail(echo) ELSE echo
          /\ SetTop([f EXCEPT !.bmask = Shl8(f.bmask), !.pc = "loop"])
          /\ UNCHANGED <<pinVars, ret>>
    /\ UNCHANGED <<reset_pulse_dur, cfgVars, dbg, my_ds182x, critical, running,
                   sent, devs, line, minPulse>>

\* ---------------------------------------------------- reset and timing

\* dur is the count of the delay loop that holds the line low.
NewReset(fn) ==
    [fn |-> fn, pc |-> "out0", end_tout |-> 0, polls |-> 0,
     loaded |-> FALSE, tmp |-> 0, dur |-> 0]

\* The give-up test with > for >=, and with no ceiling at all.
ResetTimedOut_OffByOne(end_tout) == end_tout > AOWI_PRES_END

ResetTimedOut_Never(end_tout) == FALSE

\* The test inside the wait loop that gives up: end_tout >= AOWI_PRES_END.
ResetTimedOut(end_tout) == end_tout >= AOWI_PRES_END

\* What reset returns for a line found high (smp = 1) or low (smp = 0) at the
\* first sample after the presence wait: FALSE at once for a high line, and
\* no answer yet (the wait loop follows) for a low one.
NoPresence(smp) == smp = 1

ResetResult(fn, val, first, polls, last) ==
    [fn |-> fn, val |-> val, first |-> first, polls |-> polls, last |-> last]

\* DBG (p_serial, text): the text goes to the serial device if there is one.
DBG(sink, text, old) == IF sink THEN text ELSE old

\* The statement that follows a DBG inside the same braces, run only if a
\* serial device is attached.
DBGThen_OnlyWithSink(sink, stmt) == IF sink THEN stmt ELSE "skipped"

\* The statement that follows a DBG inside the same braces: it is run
\* whether or not a serial device is attached.
DBGThen(sink, stmt) == stmt

\* The diagnostics of the reset sequence in reset and in auto_timing.
DiagNoPresence(fn) ==
    IF fn = "reset" THEN "1-Wire no presence on pin" ELSE "1W: no pres."

DiagTimeout(fn) ==
    IF fn = "reset" THEN "1-Wire reset timeout on pin" ELSE "1W: RST tout"

DiagPool ==
    {"", "1-Wire no presence on pin", "1-Wire reset timeout on pin",
     "1-Wire bit error", "RST bad", "RST OK", "1W: no pres.", "1W: RST tout",
     "1W: RST OK"}

\* The reset sequence, written out twice in the source: the whole of reset
\* and the second half of auto_timing. polls counts the samples taken by the
\* wait loop. A pin statement outside a critical section is two steps, the
\* read of the register and the write back. sink is the serial device the
\* diagnostics go to and out what it has received last after the step.
ResetStepsOn(fn, sink, out) ==
    /\ At(fn)
    /\ LET f == Top IN
       \/ /\ f.pc \in PinStmts
          /\ ~f.loaded
          /\ SetTop([f EXCEPT !.tmp = PinLoad(f.pc), !.loaded = TRUE])
          /\ out = dbg
          /\ UNCHANGED <<pinVars, ret, dev, sent>>
       \/ /\ f.pc \in PinStmts
          /\ f.loaded
          /\ PinStore(f.pc, f.tmp)
          /\ dev' = IF f.pc = "rel" /\ MasterLow
                    THEN DevAfterReset(line, devs) ELSE dev
          /\ sent' = IF f.pc = "rel" THEN <<>> ELSE sent
          /\ SetTop([f EXCEPT !.pc = AfterPin(f.pc, "check"), !.loaded = FALSE,
                              !.dur = IF f.pc = "low" THEN AOWI_RESET_D ELSE f.dur])
          /\ out = dbg
          /\ ret' = ret
       \/ /\ f.pc = "check"
          /\ \E smp \in PresenceSamples(line, dev, -1) :
                IF NoPresence(smp)
                THEN /\ out = DBG(sink, DiagNoPresence(fn), dbg)
                     /\ IF DBGThen(sink, "return") = "return"
                        THEN Return(ResetResult(fn, FALSE, smp, 0, smp))
                        ELSE SetTop(Goto(f, "poll")) /\ ret' = ret
                ELSE SetTop(Goto(f, "poll")) /\ ret' = ret /\ out = dbg
          /\ UNCHANGED <<pinVars, dev, sent>>
       \/ /\ f.pc = "poll"
          /\ \E smp \in PresenceSamples(line, dev, f.end_tout) :
                CASE smp = 1 ->
                        /\ out = IF fn = "auto_timing"
                                 THEN DBG(sink, "1W: RST OK", dbg) ELSE dbg
                        /\ Return(ResetResult(fn, TRUE, 0, f.polls + 1, 1))
                  [] smp = 0 /\ ResetTimedOut(f.end_tout)
                        /\ DBGThen(sink, "return") = "return" ->
                        /\ out = DBG(sink, DiagTimeout(fn), dbg)
                        /\ Return(ResetResult(fn, FALSE, 0, f.polls + 1, 0))
                  [] OTHER ->
                        /\ out = IF ResetTimedOut(f.end_tout)
                                 THEN DBG(sink, DiagTimeout(fn), dbg) ELSE dbg
                        /\ SetTop([f EXCEPT !.end_tout = f.end_tout + 1,
                                            !.polls = f.polls + 1])
                        /\ ret' = ret
          /\ UNCHANGED <<pinVars, dev, sent>>
    /\ UNCHANGED <<identifiers, reset_pulse_dur, data_mask, F_CPU, my_ds182x, data,
                   critical, running, ch, devs, line, echo, minPulse>>

ResetSteps(fn) == ResetStepsOn(fn, p_serial, dbg') /\ p_serial' = p_serial

reset == ResetSteps("reset")

NewAutoTiming ==
    [fn |-> "auto_timing", pc |-> "init", end_tout |-> 0, polls |-> 0,
     loaded |-> FALSE, tmp |-> 0, dur |-> 0]

\* The sweep trying the candidate 100 as well.
SweepMore_Inclusive(dur) == dur <= 100

\* The test of the sweep loop: reset_pulse_dur < 100.
SweepMore(dur) == dur < 100

\* The pin statements of auto_timing before its reset sequence: those of the
\* sweep (s_) and the two after the sweep (a_).
AutoPins == {"s_out0", "s_low", "s_rel", "s_out1", "a_rel", "a_out1"}

PinOf(pc) ==
    CASE pc = "s_out0" -> "out0"
      [] pc = "s_low" -> "low"
      [] pc \in {"s_rel", "a_rel"} -> "rel"
      [] OTHER -> "out1"

AutoAfterPin(pc) ==
    CASE pc = "s_out0" -> "s_low"
      [] pc = "s_low" -> "s_rel"
      [] pc = "s_rel" -> "s_out1"
      [] pc = "s_out1" -> "s_check"
      [] pc = "a_rel" -> "a_out1"
      [] OTHER -> "out0"

\* The sweep of auto_timing: reset pulses of 4, 6, ... counts until the line
\* is found low after the presence wait; then 2 is added, the line is let go
\* once more and a full reset sequence follows.
auto_timingOn(sink, out) ==
    \/ /\ At("auto_timing")
       /\ LET f == Top IN
          \/ /\ f.pc = "init"
             /\ reset_pulse_dur' = 4
             /\ SetTop(Goto(f, "test"))
             /\ out = dbg
             /\ UNCHANGED <<pinVars, dev>>
          \/ /\ f.pc = "test"
             /\ SetTop(Goto(f, IF SweepMore(reset_pulse_dur) THEN "s_out0" ELSE "add"))
             /\ out = dbg
             /\ UNCHANGED <<reset_pulse_dur, pinVars, dev>>
          \/ /\ f.pc \in AutoPins
             /\ ~f.loaded
             /\ SetTop([f EXCEPT !.tmp = PinLoad(PinOf(f.pc)), !.loaded = TRUE])
             /\ out = dbg
             /\ UNCHANGED <<reset_pulse_dur, pinVars, dev>>
          \/ /\ f.pc \in AutoPins
             /\ f.loaded
             /\ PinStore(PinOf(f.pc), f.tmp)
             /\ dev' = CASE f.pc = "s_rel" /\ MasterLow /\ f.dur >= minPulse ->
                                DevAfterReset(line, devs)
                         [] f.pc = "s_rel" -> DevAfterWrite(dev, 0)
                         [] OTHER -> dev
             /\ SetTop([f EXCEPT !.pc = AutoAfterPin(f.pc), !.loaded = FALSE,
                                 !.dur = IF f.pc = "s_low" THEN reset_pulse_dur
                                         ELSE f.dur])
             /\ out = dbg
             /\ UNCHANGED reset_pulse_dur
          \/ /\ f.pc = "s_check"
             /\ \E smp \in PresenceSamples(line, dev, -1) :
                   IF smp = 1
                   THEN /\ out = DBG(sink, "RST bad", dbg)
                        /\ reset_pulse_dur' = reset_pulse_dur + 2
                        /\ SetTop(Goto(f, "test"))
                   ELSE /\ out = DBG(sink, "RST OK", dbg)
                        /\ IF DBGThen(sink, "break") = "break"
                           THEN /\ reset_pulse_dur' = reset_pulse_dur
                                /\ SetTop(Goto(f, "add"))
                           ELSE /\ reset_pulse_dur' = reset_pulse_dur + 2
                                /\ SetTop(Goto(f, "test"))
             /\ UNCHANGED <<pinVars, dev>>
          \/ /\ f.pc = "add"
             /\ reset_pulse_dur' = reset_pulse_dur + 2
             /\ SetTop(Goto(f, "a_rel"))
             /\ out = dbg
             /\ UNCHANGED <<pinVars, dev>>
       /\ UNCHANGED <<identifiers, data_mask, F_CPU, my_ds182x, data, critical, running,
                      ret, ch, sent, devs, line, echo, minPulse>>
    \/ ResetStepsOn("auto_timing", sink, out)

auto_timing == auto_timingOn(p_serial, dbg') /\ p_serial' = p_serial

\* ------------------------------------------------ the identifier table

\* The clearing loop of search passing over entry 1, which keeps what it held.
ZeroTable_SkipsOne ==
    [i \in 0..(AOWI_NUM_IDS - 1) |->
        IF i = 1 THEN ID8(\H28, \H01, \H00, \H00, \H00, \H00, \H00, \HC4)
        ELSE ZeroID]

\* Every entry of the table zero.
ZeroTable == [i \in 0..(AOWI_NUM_IDS - 1) |-> ZeroID]

\* get_ID_bit counting the bits of a byte from the top: 0x80 >> (which_bit % 8).
get_ID_bit_MsbFirst(tbl, which_ID, which_bit) ==
    And8(tbl[which_ID][which_bit \div 8], Pow2(7 - (which_bit % 8))) # 0

get_ID_bit(tbl, which_ID, which_bit) ==
    And8(tbl[which_ID][which_bit \div 8], Pow2(which_bit % 8)) # 0

\* set_ID_bit clearing the bit whatever new_bit is.
set_ID_bit_AlwaysClears(tbl, which_ID, which_bit, new_bit) ==
    LET bit_mask == Pow2(which_bit % 8) IN
    [tbl EXCEPT ![which_ID][which_bit \div 8] = AndNot8(@, bit_mask)]

\* set_ID_bit with the byte index and the bit index exchanged.
set_ID_bit_Swapped(tbl, which_ID, which_bit, new_bit) ==
    LET bit_mask == Pow2(which_bit \div 8) IN
    [tbl EXCEPT ![which_ID][which_bit % 8] =
        IF new_bit THEN Or8(@, bit_mask) ELSE AndNot8(@, bit_mask)]

set_ID_bit(tbl, which_ID, which_bit, new_bit) ==
    LET bit_mask == Pow2(which_bit % 8) IN
    [tbl EXCEPT ![which_ID][which_bit \div 8] =
        IF new_bit THEN Or8(@, bit_mask) ELSE AndNot8(@, bit_mask)]

\* get_ID folding an index past the table back into it.
get_ID_Wrap(tbl, which_one) == tbl[which_one % AOWI_NUM_IDS]

get_ID(tbl, which_one) ==
    IF which_one >= AOWI_NUM_IDS THEN ZeroID ELSE tbl[which_one]

\* The scan of find_by_ID from entry index on: the first entry whose 64-bit
\* value equals an_ID, 0xFF when the scan runs off the end of the table.
RECURSIVE find_by_ID_from(_, _, _)
find_by_ID_from(tbl, an_ID, index) ==
    IF index < AOWI_NUM_IDS
    THEN IF tbl[index] = an_ID THEN index ELSE find_by_ID_from(tbl, an_ID, index + 1)
    ELSE NOT_FOUND

\* find_by_ID comparing the lowest byte only.
find_by_ID_LowByte(tbl, an_ID) ==
    IF \E i \in 0..(AOWI_NUM_IDS - 1) : tbl[i][0] = an_ID[0]
    THEN CHOOSE i \in 0..(AOWI_NUM_IDS - 1) : tbl[i][0] = an_ID[0]
    ELSE NOT_FOUND

find_by_ID(tbl, an_ID) == find_by_ID_from(tbl, an_ID, 0)

\* The scan of find_by_type from entry index on: the first entry whose byte 0
\* equals type_ID.
RECURSIVE find_by_type_from(_, _, _)
find_by_type_from(tbl, type_ID, index) ==
    IF index < AOWI_NUM_IDS
    THEN IF tbl[index][0] = type_ID THEN index
         ELSE find_by_type_from(tbl, type_ID, index + 1)
    ELSE NOT_FOUND

\* find_by_type scanning from the top of the table down.
RECURSIVE find_by_type_down(_, _, _)
find_by_type_down(tbl, type_ID, index) ==
    IF index >= 0
    THEN IF tbl[index][0] = type_ID THEN index
         ELSE find_by_type_down(tbl, type_ID, index - 1)
    ELSE NOT_FOUND

find_by_type_LastMatch(tbl, type_ID) ==
    find_by_type_down(tbl, type_ID, AOWI_NUM_IDS - 1)

find_by_type(tbl, type_ID) == find_by_type_from(tbl, type_ID, 0)

\* What show_devices prints: nothing without a port, else get_ID (fred) for
\* fred below how_many, how_many cut down to the size of the table.
show_devices(tbl, has_port, how_many) ==
    IF ~has_port
    THEN <<>>
    ELSE LET n == IF how_many > AOWI_NUM_IDS THEN AOWI_NUM_IDS ELSE how_many
         IN  [fred \in 1..n |-> get_ID(tbl, fred - 1)]

NewMatchROM(i) == [fn |-> "match_ROM", pc |-> "cmd", index |-> i, bit |-> 0]

match_ROM ==
    /\ At("match_ROM")
    /\ LET f == Top IN
       \/ /\ f.pc = "cmd"
          /\ Call(Goto(f, "loop"), NewWriteByte(CMD_MATCH_ROM))
          /\ ret' = ret
       \/ /\ f.pc = "loop"
          /\ f.bit < ID_BITS
          /\ Call(Goto(f, "next"),
                  NewSlot(IF get_ID_bit(identifiers, f.index, f.bit)
                          THEN "write_1" ELSE "write_0"))
          /\ ret' = NoRet
       \/ /\ f.pc = "loop"
          /\ ~(f.bit < ID_BITS)
          /\ Return([fn |-> "match_ROM", index |-> f.index])
       \/ /\ f.pc = "next"
          /\ SetTop([f EXCEPT !.bit = f.bit + 1, !.pc = "loop"])
          /\ ret' = ret
    /\ UNCHANGED <<busVars, pinVars, critical, running, ch, sent, envVars>>

NewReadID == [fn |-> "read_ID", pc |-> "cmd", index |-> 0]

\* read_ID: the Read ROM command, then 8 bytes read into identifiers[0].
read_ID ==
    /\ At("read_ID")
    /\ LET f == Top IN
       \/ /\ f.pc = "cmd"
          /\ Call(Goto(f, "loop"), NewWriteByte(CMD_READ_ROM))
          /\ ret' = ret
       \/ /\ f.pc = "loop"
          /\ f.index < 8
          /\ Call([f EXCEPT !.index = f.index + 1], NewReadByte(TableByte(f.index)))
          /\ ret' = NoRet
       \/ /\ f.pc = "loop"
          /\ ~(f.index < 8)
          /\ Return([fn |-> "read_ID"])
    /\ UNCHANGED <<busVars, pinVars, critical, running, ch, sent, envVars>>

\* ------------------------------------------------------------- search

\* search with high_conf kept from one call to the next (a static local).
NewSearch_StaticHighConf ==
    [fn |-> "search", pc |-> "zero", which_ID |-> 0, bit |-> 0,
     bit_error |-> FALSE, conflict |-> FALSE,
     high_conf |-> IF ret.fn = "search" THEN ret.high_conf ELSE NO_CONF,
     last_hcnf |-> NO_CONF, returned_A |-> FALSE, returned_B |-> FALSE,
     passes |-> 0, nread |-> 0, again |-> FALSE, prev |-> ZeroTable]

\* The locals of search at its entry. again and prev are not locals: they
\* record whether the call follows another search directly and what the
\* table held when it was made.
NewSearch ==
    [fn |-> "search", pc |-> "zero", which_ID |-> 0, bit |-> 0,
     bit_error |-> FALSE, conflict |-> FALSE, high_conf |-> NO_CONF,
     last_hcnf |-> NO_CONF, returned_A |-> FALSE, returned_B |-> FALSE,
     passes |-> 0, nread |-> 0, again |-> FALSE, prev |-> ZeroTable]

\* What search hands back: it returns nothing; the record keeps the locals
\* it ended with (passes and nread count the passes begun and the read_bit
\* calls made).
SearchResult(f) ==
    [fn |-> "search", which_ID |-> f.which_ID, bit |-> f.bit,
     bit_error |-> f.bit_error, conflict |-> f.conflict,
     high_conf |-> f.high_conf, passes |-> f.passes, nread |-> f.nread,
     again |-> f.again, prev |-> f.prev]

\* search never taking the 1 side of the conflict kept from the pass before.
SearchBranch_NeverResolved(a, b, bit, last_hcnf) ==
    CASE ~a /\ ~b -> "new"
      [] a /\ ~b -> "ones"
      [] ~a /\ b -> "zeros"
      [] OTHER -> "error"

\* search taking the 1 side at every conflict below the one kept from the
\* pass before as well.
SearchBranch_UpTo(a, b, bit, last_hcnf) ==
    CASE ~a /\ ~b /\ last_hcnf # 99 /\ bit <= last_hcnf -> "resolved"
      [] ~a /\ ~b -> "new"
      [] a /\ ~b -> "ones"
      [] ~a /\ b -> "zeros"
      [] OTHER -> "error"

\* search reading the pair 10 as "all have 0" and 01 as "all have 1".
SearchBranch_Swapped(a, b, bit, last_hcnf) ==
    CASE ~a /\ ~b /\ last_hcnf = bit -> "resolved"
      [] ~a /\ ~b /\ last_hcnf # bit -> "new"
      [] a /\ ~b -> "zeros"
      [] ~a /\ b -> "ones"
      [] OTHER -> "error"

\* The branch search takes for the pair (returned_A, returned_B) at position
\* bit:  "resolved" (00 at the conflict kept from the pass before: take 1),
\* "new" (00 elsewhere: take 0 and keep the position), "ones" (10), "zeros"
\* (01), "error" (11).
SearchBranch(a, b, bit, last_hcnf) ==
    CASE ~a /\ ~b /\ last_hcnf = bit -> "resolved"
      [] ~a /\ ~b /\ last_hcnf # bit -> "new"
      [] a /\ ~b -> "ones"
      [] ~a /\ b -> "zeros"
      [] OTHER -> "error"

\* search going on after a reset that found nobody.
SearchAborts_Never(presence) == FALSE

\* The test after the reset of a pass: if (!reset ()) return.
SearchAborts(presence) == ~presence

\* The pass loop running one entry past the table.
SearchMore_OnePast(which_ID) == which_ID <= AOWI_NUM_IDS

\* The test of the pass loop: which_ID < AOWI_NUM_IDS.
SearchMore(which_ID) == which_ID < AOWI_NUM_IDS

\* search going on after a pass with a bit error if it saw a conflict.
SearchDone_ConflictOnly(conflict, bit_error) == ~conflict

\* The test that ends search after a pass: !conflict || bit_error.
SearchDone(conflict, bit_error) == ~conflict \/ bit_error

\* sink is the serial device the diagnostics go to and out what it has
\* received last after the step.
searchOn(sink, out) ==
    /\ At("search")
    /\ LET f == Top IN
       \/ /\ f.pc = "zero"
          /\ out = dbg
          /\ identifiers' = ZeroTable
          /\ SetTop([f EXCEPT !.which_ID = 0, !.pc = "pass"])
          /\ ret' = ret
       \/ /\ f.pc = "pass"
          /\ out = dbg
          /\ SearchMore(f.which_ID)
          /\ Call([f EXCEPT !.pc = "reset_done", !.passes = f.passes + 1],
                  NewReset("reset"))
          /\ UNCHANGED <<identifiers, ret>>
       \/ /\ f.pc = "pass"
          /\ out = dbg
          /\ ~SearchMore(f.which_ID)
          /\ Return(SearchResult(f))
          /\ UNCHANGED identifiers
       \/ /\ f.pc = "reset_done"
          /\ out = dbg
          /\ SearchAborts(ret.val)
          /\ Return(SearchResult(f))
          /\ UNCHANGED identifiers
       \/ /\ f.pc = "reset_done"
          /\ out = dbg
          /\ ~SearchAborts(ret.val)
          /\ Call(Goto(f, "cmd_done"), NewWriteByte(CMD_SEARCH_ROM))
          /\ ret' = NoRet
          /\ UNCHANGED identifiers
       \/ /\ f.pc = "cmd_done"
          /\ out = dbg
          /\ SetTop([f EXCEPT !.conflict = FALSE, !.last_hcnf = f.high_conf,
                              !.high_conf = NO_CONF, !.bit = 0, !.pc = "bit"])
          /\ ret' = NoRet
          /\ UNCHANGED identifiers
       \/ /\ f.pc = "bit"
          /\ out = dbg
          /\ f.bit < ID_BITS /\ ~f.bit_error
          /\ Call([f EXCEPT !.pc = "gotA", !.nread = f.nread + 1], NewSlot("read_bit"))
          /\ UNCHANGED <<identifiers, ret>>
       \/ /\ f.pc = "bit"
          /\ out = dbg
          /\ ~(f.bit < ID_BITS /\ ~f.bit_error)
          /\ SetTop(Goto(f, "pass_end"))
          /\ UNCHANGED <<identifiers, ret>>
       \/ /\ f.pc = "gotA"
          /\ out = dbg
          /\ Call([f EXCEPT !.returned_A = ret.val, !.pc = "gotB",
                            !.nread = f.nread + 1], NewSlot("read_bit"))
          /\ ret' = NoRet
          /\ UNCHANGED identifiers
       \/ /\ f.pc = "gotB"
          /\ ret' = NoRet
          /\ LET g == [f EXCEPT !.returned_B = ret.val]
                 br == SearchBranch(g.returned_A, g.returned_B, g.bit, g.last_hcnf)
             IN  CASE br = "resolved" ->
                        /\ Call(Goto(g, "set"), NewSlot("write_1"))
                        /\ out = dbg
                        /\ UNCHANGED identifiers
                   [] br = "new" ->
                        /\ Call([g EXCEPT !.high_conf = g.bit, !.conflict = TRUE,
                                          !.pc = "next"], NewSlot("write_0"))
                        /\ out = dbg
                        /\ UNCHANGED identifiers
                   [] br = "ones" ->
                        /\ identifiers' = set_ID_bit(identifiers, g.which_ID, g.bit, TRUE)
                        /\ Call(Goto(g, "next"), NewSlot("write_1"))
                        /\ out = dbg
                   [] br = "zeros" ->
                        /\ Call(Goto(g, "next"), NewSlot("write_0"))
                        /\ out = dbg
                        /\ UNCHANGED identifiers
                   [] OTHER ->
                        /\ SetTop([g EXCEPT !.bit_error = TRUE,
                                            !.pc = DBGThen(sink, "next")])
                        /\ out = DBG(sink, "1-Wire bit error", dbg)
                        /\ UNCHANGED identifiers
       \/ /\ f.pc = "set"
          /\ out = dbg
          /\ identifiers' = set_ID_bit(identifiers, f.which_ID, f.bit, TRUE)
          /\ SetTop(Goto(f, "next"))
          /\ ret' = ret
       \/ /\ f.pc = "next"
          /\ out = dbg
          /\ SetTop([f EXCEPT !.bit = f.bit + 1, !.pc = "bit"])
          /\ UNCHANGED <<identifiers, ret>>
       \/ /\ f.pc = "pass_end"
          /\ out = dbg
          /\ SearchDone(f.conflict, f.bit_error)
          /\ Return(SearchResult(f))
          /\ UNCHANGED identifiers
       \/ /\ f.pc = "pass_end"
          /\ out = dbg
          /\ ~SearchDone(f.conflict, f.bit_error)
          /\ SetTop([f EXCEPT !.which_ID = f.which_ID + 1, !.pc = "pass"])
          /\ UNCHANGED <<identifiers, ret>>
    /\ UNCHANGED <<reset_pulse_dur, data_mask, F_CPU, my_ds182x, data, pinVars, critical,
                   running, ch, sent, envVars>>

search == searchOn(p_serial, dbg') /\ p_serial' = p_serial

\* ----------------------------------------------------------- scheduler

\* The tick interrupt hands the processor to another task; interrupts are
\* off inside a critical section.
TaskSwitch ==
    /\ ~Idle
    /\ running = "bus"
    /\ critical = 0
    /\ running' = "other"
    /\ UNCHANGED <<busVars, pinVars, critical, stack, ret, ch, sent, envVars>>

Resume ==
    /\ running = "other"
    /\ running' = "bus"
    /\ UNCHANGED <<busVars, pinVars, critical, stack, ret, ch, sent, envVars>>

\* Another task writes one of two other bits of the port's output register
\* or of its direction register while it has the processor.
OtherMasks == {1, 64} \ {data_mask}

OtherWrites ==
    /\ running = "other"
    /\ \E m \in OtherMasks :
          \/ /\ data_outport' = Or8(data_outport, m)
             /\ data_ddr' = data_ddr
          \/ /\ data_ddr' = Or8(data_ddr, m)
             /\ data_outport' = data_outport
    /\ UNCHANGED <<busVars, critical, running, stack, ret, ch, sent, envVars>>

\* ------------------------------------------------------- construction

\* The object is made with new and the constructor does not touch the
\* identifier table: it holds whatever the memory held.
StaleTable == [i \in 0..(AOWI_NUM_IDS - 1) |-> IF i = 1 THEN DevC ELSE ZeroID]

\* The constructor's work on the pin and the serial device: the mask is
\* 1 << data_bit, the pin is made an input with its pull-up on, and the other
\* bits of the two registers stay as they were (DDRx, PORTx).
Wired(data_bit, DDRx, PORTx, p_ser_dev) ==
    /\ data_mask = Pow2(data_bit) % 256
    /\ p_serial = p_ser_dev
    /\ dbg = ""
    /\ data_ddr = AndNot8(DDRx, Pow2(data_bit) % 256)
    /\ data_outport = Or8(PORTx, Pow2(data_bit) % 256)

ConstructedWith(data_bit, DDRx, PORTx, p_ser_dev) ==
    /\ identifiers \in {ZeroTable, StaleTable}
    /\ reset_pulse_dur = RESET_D(F_CPU)
    /\ Wired(data_bit, DDRx, PORTx, p_ser_dev)
    /\ critical = 0
    /\ running = "bus"
    /\ stack = <<>>
    /\ ret = NoRet
    /\ ch = 0
    /\ sent = <<>>

\* The object as the program makes it: pin 7 of a port with nothing else on
\* it and no serial device.
Constructed == ConstructedWith(7, 0, 0, FALSE)

\* The union data while temperature is not running.
NoData == [k \in 0..1 |-> 0]

\* The constructor of the temperature sensor driver: the type is kept and the
\* sensor is not yet identified in the table of the bus.
avr_ds182x(type_ID_byte) == [type_ID |-> type_ID_byte, ID_index |-> NOT_FOUND]

\* The program as built for a 16 MHz processor, with a driver for a DS1822.
AsBuilt ==
    /\ F_CPU = 16000000
    /\ my_ds182x = avr_ds182x(DS1822_TYPE_ID)
    /\ data = NoData

\* ------------------------------------------------------- the callers

\* Another piece of the program calls an operation of the bus while no other
\* one is in progress.
CallReset ==
    /\ Idle
    /\ stack' = <<NewReset("reset")>>
    /\ ret' = NoRet
    /\ UNCHANGED <<busVars, pinVars, critical, running, ch, sent, envVars>>

CallSearch ==
    /\ Idle
    /\ stack' = <<NewSearch>>
    /\ ret' = NoRet
    /\ sent' = <<>>
    /\ UNCHANGED <<busVars, pinVars, critical, running, ch, envVars>>

\* search is called again right after it has returned.
CallSearchAgain ==
    /\ Idle
    /\ ret.fn = "search"
    /\ stack' = <<[NewSearch EXCEPT !.again = TRUE, !.prev = identifiers]>>
    /\ ret' = NoRet
    /\ sent' = <<>>
    /\ UNCHANGED <<busVars, pinVars, critical, running, ch, envVars>>

\* match_ROM "should be called right after reset()".
CallMatchROM ==
    /\ Idle
    /\ ret.fn = "reset" /\ ret.val
    /\ \E i \in 0..(AOWI_NUM_IDS - 1) : stack' = <<NewMatchROM(i)>>
    /\ ret' = NoRet
    /\ sent' = <<>>
    /\ UNCHANGED <<busVars, pinVars, critical, running, ch, envVars>>

CallAutoTiming ==
    /\ Idle
    /\ stack' = <<NewAutoTiming>>
    /\ ret' = NoRet
    /\ UNCHANGED <<busVars, pinVars, critical, running, ch, sent, envVars>>

\* The devices are pulled off the line: from then on it floats high.
Unplug ==
    /\ line = "ok"
    /\ ~Idle => Top.fn = "search"
    /\ line' = "open"
    /\ dev' = DevIdle
    /\ UNCHANGED <<busVars, pinVars, critical, running, stack, ret, ch, sent,
                   devs, echo, minPulse>>

\* ------------------------------------------------------ the bus at work

Init ==
    /\ AsBuilt
    /\ Constructed
    /\ devs \in SUBSET DevicePool
    /\ line \in {"ok", "short"}
    /\ dev = DevIdle
    /\ echo = <<>>
    /\ minPulse = 4

Next ==
    \/ CallReset
    \/ CallSearch
    \/ CallMatchROM
    \/ reset
    \/ search
    \/ match_ROM
    \/ write_byte
    \/ write_0
    \/ write_1
    \/ read_bit
    \/ TaskSwitch
    \/ Resume

Spec == Init /\ [][Next]_vars

\* search called over and over on the same line.
NextTwice ==
    \/ CallSearch
    \/ CallSearchAgain
    \/ reset
    \/ search
    \/ write_byte
    \/ write_0
    \/ write_1
    \/ read_bit
    \/ TaskSwitch
    \/ Resume

SpecTwice == Init /\ [][NextTwice]_vars

\* ------------------------------------------------- the byte echo bench

\* A caller writes a byte to a line that plays the written bits back, then
\* reads a byte.
CallWriteByteFrom(pool) ==
    /\ Idle
    /\ \E b \in pool : stack' = <<NewWriteByte(b)>>
    /\ ret' = NoRet
    /\ ch' = 0
    /\ sent' = <<>>
    /\ echo' = <<>>
    /\ UNCHANGED <<busVars, pinVars, critical, running, devs, line, dev, minPulse>>

CallWriteByte == CallWriteByteFrom(Byte)

CallWriteByteRevFrom(pool) ==
    /\ Idle
    /\ \E b \in pool : stack' = <<NewWriteByteRev(b)>>
    /\ ret' = NoRet
    /\ ch' = 0
    /\ sent' = <<>>
    /\ echo' = <<>>
    /\ UNCHANGED <<busVars, pinVars, critical, running, devs, line, dev, minPulse>>

CallWriteByteRev == CallWriteByteRevFrom(Byte)

CallReadByte ==
    /\ Idle
    /\ echo # <<>>
    /\ stack' = <<NewReadByte(CallerByte)>>
    /\ ret' = NoRet
    /\ UNCHANGED <<busVars, pinVars, critical, running, ch, sent, envVars>>

InitByte ==
    /\ AsBuilt
    /\ Constructed
    /\ identifiers = ZeroTable
    /\ devs = {}
    /\ line = "echo"
    /\ dev = DevIdle
    /\ echo = <<>>
    /\ minPulse = 4

NextByte ==
    \/ CallWriteByte
    \/ CallWriteByteRev
    \/ CallReadByte
    \/ write_byte
    \/ write_byte_rev
    \/ read_byte
    \/ write_0
    \/ write_1
    \/ TaskSwitch
    \/ Resume

SpecByte == InitByte /\ [][NextByte]_vars

\* ------------------------------------------- faults and timing on the line

\* The bus with devices that can be pulled off at any moment, a line that may
\* be stuck low, and the calibration of the reset pulse.
InitFault ==
    /\ AsBuilt
    /\ Constructed
    /\ devs \in {{}, {DevB}, {DevA, DevB}, {DevA, DevB, DevD}}
    /\ line \in {"ok", "short"}
    /\ dev = DevIdle
    /\ echo = <<>>
    /\ minPulse \in {4, 98, 100}

NextFault ==
    \/ CallReset
    \/ CallSearch
    \/ CallAutoTiming
    \/ Unplug
    \/ reset
    \/ auto_timing
    \/ search
    \/ write_byte
    \/ write_0
    \/ write_1
    \/ read_bit
    \/ TaskSwitch
    \/ Resume

SpecFault == InitFault /\ [][NextFault]_vars

\* The same operations on an object made with or without a serial device for
\* its diagnostics.
InitDebug ==
    /\ AsBuilt
    /\ \E p_ser_dev \in BOOLEAN : ConstructedWith(7, 0, 0, p_ser_dev)
    /\ identifiers = ZeroTable
    /\ devs \in {{}, {DevA, DevB}}
    /\ line \in {"ok", "short"}
    /\ dev = DevIdle
    /\ echo = <<>>
    /\ minPulse \in {4, 100}

SpecDebug == InitDebug /\ [][NextFault]_vars

\* ------------------------------------------------- the table in use

\* The values an entry of the table may hold when the lookups are called.
EntryPool == {ZeroID, DevB, DevD}

\* The identifiers a caller looks for.
QueryPool == {ZeroID, DevA, DevB, DevD}

\* The how_many arguments given to show_devices: up to one past the table.
HowMany == 0..(AOWI_NUM_IDS + 1)

\* read_ID follows a reset that found a device, as match_ROM does.
CallReadID ==
    /\ Idle
    /\ ret.fn = "reset" /\ ret.val
    /\ stack' = <<NewReadID>>
    /\ ret' = NoRet
    /\ sent' = <<>>
    /\ UNCHANGED <<busVars, pinVars, critical, running, ch, envVars>>

CallReadBit ==
    /\ Idle
    /\ stack' = <<NewSlot("read_bit")>>
    /\ ret' = NoRet
    /\ UNCHANGED <<busVars, pinVars, critical, running, ch, sent, envVars>>

LookupFns == {"get_ID", "find_by_ID", "find_by_type", "show_devices"}

\* The caller has used the result of a lookup before it makes the next one.
ResultTaken == ret.fn \notin LookupFns

\* The lookups touch neither the line nor any state: each is one step that
\* hands its result to the caller.
CallGetID ==
    /\ Idle
    /\ ResultTaken
    /\ \E which_one \in Byte :
          ret' = [fn |-> "get_ID", which_one |-> which_one,
                  val |-> get_ID(identifiers, which_one)]
    /\ UNCHANGED <<busVars, pinVars, critical, running, stack, ch, sent, envVars>>

CallFindByID ==
    /\ Idle
    /\ ResultTaken
    /\ \E an_ID \in QueryPool :
          ret' = [fn |-> "find_by_ID", an_ID |-> an_ID,
                  val |-> find_by_ID(identifiers, an_ID)]
    /\ UNCHANGED <<busVars, pinVars, critical, running, stack, ch, sent, envVars>>

CallFindByType ==
    /\ Idle
    /\ ResultTaken
    /\ \E type_ID \in Byte :
          ret' = [fn |-> "find_by_type", type_ID |-> type_ID,
                  val |-> find_by_type(identifiers, type_ID)]
    /\ UNCHANGED <<busVars, pinVars, critical, running, stack, ch, sent, envVars>>

CallShowDevices ==
    /\ Idle
    /\ ResultTaken
    /\ \E has_port \in BOOLEAN, how_many \in HowMany :
          ret' = [fn |-> "show_devices", how_many |-> how_many,
                  shown |-> show_devices(identifiers, has_port, how_many)]
    /\ UNCHANGED <<busVars, pinVars, critical, running, stack, ch, sent, envVars>>

\* The table holds anything when the bus is made; one device or none is on
\* the line.
InitTable ==
    /\ AsBuilt
    /\ identifiers \in [0..(AOWI_NUM_IDS - 1) -> EntryPool]
    /\ reset_pulse_dur = AOWI_RESET_D
    /\ Wired(7, 0, 0, FALSE)
    /\ critical = 0
    /\ running = "bus"
    /\ stack = <<>>
    /\ ret = NoRet
    /\ ch = 0
    /\ sent = <<>>
    /\ devs \in {{}, {DevB}}
    /\ line = "ok"
    /\ dev = DevIdle
    /\ echo = <<>>
    /\ minPulse = 4

NextTable ==
    \/ CallReset
    \/ CallSearch
    \/ CallMatchROM
    \/ CallAutoTiming
    \/ CallReadID
    \/ CallReadBit
    \/ CallGetID
    \/ CallFindByID
    \/ CallFindByType
    \/ CallShowDevices
    \/ reset
    \/ search
    \/ match_ROM
    \/ auto_timing
    \/ read_ID
    \/ write_byte
    \/ read_byte
    \/ write_0
    \/ write_1
    \/ read_bit
    \/ TaskSwitch
    \/ Resume

SpecTable == InitTable /\ [][NextTable]_vars

\* ------------------------------------------------- the port's other bits

\* Every operation of the bus, on pin 7 of a port with nothing else on it and
\* on pin 0 of a port whose other bits are in use; the line is sound, stuck
\* low or plays the written bits back, and devices can be pulled off.
PortPool ==
    {[data_bit |-> 7, DDRx |-> \H00, PORTx |-> \H00],
     [data_bit |-> 0, DDRx |-> \HA5, PORTx |-> \H5A]}

BytePool == {\H00, \HA5}

InitPort ==
    /\ AsBuilt
    /\ \E w \in PortPool : ConstructedWith(w.data_bit, w.DDRx, w.PORTx, FALSE)
    /\ identifiers = ZeroTable
    /\ devs = {DevB}
    /\ line \in {"ok", "short", "echo"}
    /\ dev = DevIdle
    /\ echo = <<>>
    /\ minPulse = 4

NextPort ==
    \/ CallReset
    \/ CallSearch
    \/ CallMatchROM
    \/ CallAutoTiming
    \/ CallReadID
    \/ CallReadBit
    \/ CallWriteByteFrom(BytePool)
    \/ CallWriteByteRevFrom(BytePool)
    \/ CallReadByte
    \/ Unplug
    \/ reset
    \/ search
    \/ match_ROM
    \/ auto_timing
    \/ read_ID
    \/ write_byte
    \/ write_byte_rev
    \/ read_byte
    \/ write_0
    \/ write_1
    \/ read_bit
    \/ TaskSwitch
    \/ Resume

SpecPort == InitPort /\ [][NextPort]_vars

\* reset, auto_timing and read_ID while another task uses other bits of the
\* same port.
InitRace ==
    /\ AsBuilt
    /\ Constructed
    /\ identifiers = ZeroTable
    /\ devs = {DevB}
    /\ line = "ok"
    /\ dev = DevIdle
    /\ echo = <<>>
    /\ minPulse = 4

NextRace ==
    \/ CallReset
    \/ CallAutoTiming
    \/ CallReadID
    \/ reset
    \/ auto_timing
    \/ read_ID
    \/ write_byte
    \/ read_byte
    \/ write_0
    \/ write_1
    \/ TaskSwitch
    \/ Resume
    \/ OtherWrites

SpecRace == InitRace /\ [][NextRace]_vars

\* ------------------------------------------------- the processor clock

\* Clock rates of the processors the driver is built for, Hz.
ClockPool ==
    {1000000, 2000000, 3686400, 4000000, 7372800, 8000000, 10000000, 12000000,
     14745600, 16000000, 18432000, 20000000}

\* The slots run with the delay counts of each clock rate.
InitClock ==
    /\ F_CPU \in ClockPool
    /\ my_ds182x = avr_ds182x(DS1822_TYPE_ID)
    /\ data = NoData
    /\ Constructed
    /\ identifiers = ZeroTable
    /\ devs = {DevB}
    /\ line = "ok"
    /\ dev = DevIdle
    /\ echo = <<>>
    /\ minPulse = 4

NextClock ==
    \/ CallWriteByteFrom(BytePool)
    \/ CallReadBit
    \/ write_byte
    \/ write_0
    \/ write_1
    \/ read_bit

SpecClock == InitClock /\ [][NextClock]_vars

\* =============================================================== claims

\* search has returned to its caller on a line of ideal devices.
SearchReturned == Idle /\ ret.fn = "search" /\ line = "ok"

Slots == 0..(AOWI_NUM_IDS - 1)

\* The identifiers held by the non-empty entries of the table.
Registered == {identifiers[i] : i \in {j \in Slots : identifiers[j] # ZeroID}}

\* x is below y when the lowest bit in which they differ is 0 in x and 1 in y
\* (the order of the values read with bit 0 as the most significant bit).
LessFromBit0(x, y) ==
    \E b \in 0..(ID_BITS - 1) :
        /\ IdBit(x, b) = 0
        /\ IdBit(y, b) = 1
        /\ \A j \in 0..(b - 1) : IdBit(x, j) = IdBit(y, j)

\* C1: when search returns on a bus of k ideal devices, 1 <= k <= AOWI_NUM_IDS,
\* the non-empty entries of the table hold exactly the k device identifiers,
\* none of them twice.
C1_SearchFindsEveryDevice ==
    (SearchReturned /\ Cardinality(devs) \in 1..AOWI_NUM_IDS) =>
        /\ Registered = devs
        /\ \A i, j \in Slots :
              (i # j /\ identifiers[i] # ZeroID) => identifiers[i] # identifiers[j]

C3_TwoDevicesAscending ==
    (SearchReturned /\ devs = {DevA, DevB}) =>
        /\ {get_ID(identifiers, 0), get_ID(identifiers, 1)} = {DevA, DevB}
        /\ Less64(get_ID(identifiers, 0), get_ID(identifiers, 1))
        /\ get_ID(identifiers, 2) = ZeroID

\* C3 amended: with these two devices search leaves 0x10AABBCCDDEE7A in entry 0
\* and 0x22112233445B in entry 1 (the larger value first), and get_ID(2) is 0.
C3_TwoDevicesFound ==
    (SearchReturned /\ devs = {DevA, DevB}) =>
        /\ get_ID(identifiers, 0) = DevA
        /\ get_ID(identifiers, 1) = DevB
        /\ get_ID(identifiers, 2) = ZeroID

C3_Witness == SearchReturned /\ devs = {DevA, DevB} /\ get_ID(identifiers, 1) = DevB

\* The bits of byte b, bit 0 first.
LsbFirst(b) == [k \in 1..8 |-> BitOf(b, k - 1)]

\* The 64 bits of identifier x, bit 0 first.
IdBitsFrom0(x) == [k \in 1..ID_BITS |-> IdBit(x, k - 1)]

\* C4: when match_ROM(i) returns, the bits written are 0x55, bit 0 first, then
\* bits 0..63 of entry i, and of the devices that were listening exactly those
\* whose identifier equals entry i still are.
C4_MatchROMSelectsOne ==
    (Idle /\ ret.fn = "match_ROM") =>
        /\ sent = LsbFirst(CMD_MATCH_ROM) \o IdBitsFrom0(identifiers[ret.index])
        /\ line = "ok" =>
              /\ dev.mode = "func"
              /\ dev.part = {x \in devs : x = identifiers[ret.index]}

C4_Witness ==
    /\ Idle
    /\ ret.fn = "match_ROM"
    /\ Cardinality(devs) >= 3
    /\ dev.part = {DevB}
    /\ ret.index = 1

\* C5: when search returns after a pass that read the pair (1,1), the entry
\* that pass was filling is all zero.
C5_NothingStoredOnBitError ==
    (Idle /\ ret.fn = "search" /\ ret.bit_error) =>
        identifiers[ret.which_ID] = ZeroID

\* C6: reset returns true exactly when the first sample after the presence
\* wait found the line low and a later sample, one of at most
\* AOWI_PRES_END + 1, found it high; it returns false for a line high at the
\* first sample and for a line still low at sample AOWI_PRES_END + 1.
C6_ResetResult ==
    ret.fn = "reset" =>
        /\ ret.val <=> (ret.first = 0 /\ ret.last = 1 /\ ret.polls <= AOWI_PRES_END + 1)
        /\ ret.first = 1 => (~ret.val /\ ret.polls = 0)
        /\ (ret.first = 0 /\ ret.last = 0) =>
              (~ret.val /\ ret.polls = AOWI_PRES_END + 1)

C6_Witness ==
    /\ ret.fn = "reset"
    /\ ret.val
    /\ ret.polls = AOWI_PRES_END + 1

\* The frames of the call stack.
Frames == {stack[k] : k \in 1..Len(stack)}

\* C7: the wait loop of reset and of auto_timing samples the line at most
\* AOWI_PRES_END + 1 times, and search begins at most AOWI_NUM_IDS passes of
\* at most 64 positions with two read_bit calls each, whatever the line does.
C7_BoundedLoops ==
    /\ \A f \in Frames :
          /\ f.fn \in {"reset", "auto_timing"} => f.polls <= AOWI_PRES_END
          /\ f.fn = "search" =>
                /\ f.passes <= AOWI_NUM_IDS
                /\ f.bit <= ID_BITS
                /\ f.nread <= 2 * ID_BITS * f.passes
    /\ ret.fn \in {"reset", "auto_timing"} => ret.polls <= AOWI_PRES_END + 1
    /\ ret.fn = "search" =>
          /\ ret.passes <= AOWI_NUM_IDS
          /\ ret.nread <= 2 * ID_BITS * AOWI_NUM_IDS

C7_Witness ==
    /\ Idle
    /\ ret.fn = "auto_timing"
    /\ ~ret.val
    /\ ret.polls = AOWI_PRES_END + 1

\* The body of a slot function.
BodyOf(fn) ==
    CASE fn = "write_0" -> write_0_body
      [] fn = "write_1" -> write_1_body
      [] OTHER -> read_bit_body

SlotFns == {"write_0", "write_1", "read_bit"}

\* Statement st of the frame's function has been executed.
Done(f, st) == \E k \in 1..(f.pc - 1) : BodyOf(f.fn)[k] = st

\* C8: inside write_0, write_1 and read_bit another task never runs while the
\* master holds the line low nor, in read_bit, between the start of the slot
\* and the sample; driving low, releasing and sampling are done inside the
\* critical section.
C8_SlotsUninterrupted ==
    (stack # <<>> /\ Top.fn \in SlotFns) =>
        /\ running = "other" =>
              /\ ~MasterLow
              /\ ~(Top.fn = "read_bit" /\ Done(Top, "low") /\ ~Done(Top, "sample"))
        /\ (Top.pc <= Len(BodyOf(Top.fn))
              /\ BodyOf(Top.fn)[Top.pc] \in {"low", "rel", "sample"}) => critical > 0

C8_Witness ==
    /\ stack # <<>>
    /\ Top.fn = "write_1"
    /\ Done(Top, "rel")
    /\ running = "other"

\* C9: in read_byte another task never runs between the start of a bit slot
\* (the line driven low) and the sample of that slot.
C9_ReadByteUninterrupted ==
    (stack # <<>> /\ Top.fn = "read_byte" /\ Top.pc \in {"rel", "out1", "sample"}) =>
        running = "bus"

\* C10: write_byte(b) writes exactly 8 slots, bit 0 of b first, and read_byte
\* fed those 8 line values in that order yields b.
C10_LsbFirstRoundTrip ==
    /\ (stack # <<>> /\ stack[1].fn = "write_byte") => Len(sent) <= 8
    /\ (Idle /\ ret.fn = "write_byte") => sent = LsbFirst(ret.the_byte)
    /\ (Idle /\ ret.fn = "read_byte") =>
          \A b \in Byte : sent = LsbFirst(b) => ch = b

C10_Witness ==
    /\ Idle
    /\ ret.fn = "read_byte"
    /\ sent = LsbFirst(\H4B)
    /\ ch = \H4B

\* The sequence s back to front.
Reverse(s) == [k \in 1..Len(s) |-> s[Len(s) + 1 - k]]

\* C11: write_byte_rev(b) writes exactly 8 slots, bit 7 of b first and bit 0
\* last: the slots of write_byte(b) in the opposite order.
C11_MsbFirstIsReverse ==
    /\ (stack # <<>> /\ stack[1].fn = "write_byte_rev") => Len(sent) <= 8
    /\ (Idle /\ ret.fn = "write_byte_rev") =>
          /\ Len(sent) = 8
          /\ \A k \in 1..8 : sent[k] = BitOf(ret.the_byte, 8 - k)
          /\ sent = Reverse(LsbFirst(ret.the_byte))

C11_Witness ==
    /\ Idle
    /\ ret.fn = "write_byte_rev"
    /\ ret.the_byte = \H4B
    /\ sent = <<0, 1, 0, 0, 1, 0, 1, 1>>

\* Every entry of the table is zero.
AllZero == \A i \in Slots : identifiers[i] = ZeroID

\* C12: search zeroes every entry before it touches the line, so the table
\* is all zero until the first pair of a pass has been read; an identifier
\* the table held before the call is not in the result unless found again,
\* and when the first reset finds no presence search returns with every
\* entry zero.
C12_SearchClearsFirst ==
    /\ (stack # <<>> /\ stack[1].fn = "search" /\ stack[1].pc # "zero"
          /\ stack[1].nread = 0) => AllZero
    /\ (Idle /\ ret.fn = "search" /\ ret.nread = 0) => AllZero
    /\ (Idle /\ ret.fn = "search" /\ ret.nread > 0) => Registered \subseteq devs

C12_Witness ==
    /\ Idle
    /\ ret.fn = "search"
    /\ ret.passes = 1
    /\ ret.nread = 0
    /\ devs = {}
    /\ AllZero

\* The operation the caller started, still in progress.
Running(fn) == stack # <<>> /\ stack[1].fn = fn

ResetFailedInSearch ==
    At("search") /\ Top.pc = "reset_done" /\ ret.fn = "reset" /\ ~ret.val

\* search has returned from the reset of its last pass: it made no read_bit
\* call after the passes before, each of 64 positions.
AbortedAtReset ==
    Idle /\ ret.fn = "search" /\ ret.nread = 2 * ID_BITS * (ret.passes - 1)

\* C14: when the reset at the start of a pass reports no presence, the next
\* step of search is its return, with the table as it was; no bit has been
\* written since the reset pulse, the entries of the passes before hold the
\* identifiers those passes found and the other entries are zero.
C14_AbortOnNoPresence ==
    /\ [](ResetFailedInSearch =>
            /\ sent = <<>>
            /\ \A i \in Slots : i >= Top.which_ID => identifiers[i] = ZeroID)
    /\ [](AbortedAtReset =>
            /\ sent = <<>>
            /\ ret.which_ID = ret.passes - 1
            /\ \A i \in Slots : i >= ret.which_ID => identifiers[i] = ZeroID
            /\ \A i \in Slots : i < ret.which_ID => identifiers[i] \in devs)
    /\ [][(ResetFailedInSearch /\ stack' # stack) =>
            /\ stack' = <<>>
            /\ ret'.fn = "search"
            /\ identifiers' = identifiers
            /\ sent' = sent]_vars

C14_Witness ==
    /\ AbortedAtReset
    /\ ret.passes = 2
    /\ line = "open"
    /\ identifiers[0] = DevA
    /\ identifiers[1] = ZeroID

\* C15: search is about to begin a further pass only when fewer than
\* AOWI_NUM_IDS passes have run and the pass before went through all 64
\* positions with no (1,1) pair and with a conflict; and when search returns
\* after a pass, that pass was number AOWI_NUM_IDS, or had a (1,1) pair, or
\* had no conflict.
C15_FurtherPassIff ==
    /\ \A f \in Frames :
          (f.fn = "search" /\ f.pc = "pass" /\ f.which_ID >= 1
                /\ f.which_ID < AOWI_NUM_IDS) =>
             /\ f.passes = f.which_ID
             /\ f.bit = ID_BITS
             /\ f.nread = 2 * ID_BITS * f.passes
             /\ ~f.bit_error
             /\ f.conflict
    /\ \A f \in Frames :
          (f.fn = "search" /\ f.pc \notin {"zero", "pass"}) =>
             /\ f.passes = f.which_ID + 1
             /\ f.passes <= AOWI_NUM_IDS
    /\ (Idle /\ ret.fn = "search" /\ ~AbortedAtReset) =>
          \/ ret.passes = AOWI_NUM_IDS
          \/ ret.bit_error
          \/ ~ret.conflict

C15_Witness ==
    /\ stack # <<>>
    /\ stack[1].fn = "search"
    /\ stack[1].pc = "pass"
    /\ stack[1].which_ID = 2
    /\ stack[1].conflict
    /\ line = "ok"

\* auto_timing has returned after a sweep in which no candidate 4, 6, ..., 98
\* found the line low: the sweep ended at 100 and 2 was added.
SweepFoundNothing ==
    Idle /\ ret.fn = "auto_timing" /\ reset_pulse_dur = 102

\* C16: auto_timing returns false when no candidate of its sweep produced a
\* presence pulse.
C16_FalseWhenSweepFails ==
    SweepFoundNothing => ~ret.val

\* C17: search never works on an entry number AOWI_NUM_IDS or above, and on
\* a line with more devices than the table has entries it returns after
\* AOWI_NUM_IDS passes with at most AOWI_NUM_IDS entries filled, each with a
\* device of the line, without a bit error; it returns no value.
C17_OverflowIsSilent ==
    /\ DOMAIN identifiers = Slots
    /\ \A f \in Frames :
          (f.fn = "search" /\ f.pc # "pass") => f.which_ID < AOWI_NUM_IDS
    /\ (SearchReturned /\ Cardinality(devs) > AOWI_NUM_IDS) =>
          /\ ret.passes = AOWI_NUM_IDS
          /\ ~ret.bit_error
          /\ "val" \notin DOMAIN ret
          /\ Cardinality(Registered) <= AOWI_NUM_IDS
          /\ Registered \subseteq devs

C17_Witness ==
    /\ SearchReturned
    /\ devs = DevicePool
    /\ Cardinality(Registered) = AOWI_NUM_IDS

\* The entries whose byte 0 is code.
OfType(code) == {i \in Slots : identifiers[i][0] = code}

\* C18: find_by_type(code) returns 0xFF when no entry has byte 0 equal to
\* code, and else the lowest number of an entry that has.
C18_FindByTypeLowest ==
    ret.fn = "find_by_type" =>
        /\ OfType(ret.type_ID) = {} => ret.val = 255
        /\ OfType(ret.type_ID) # {} =>
              /\ ret.val \in OfType(ret.type_ID)
              /\ \A j \in OfType(ret.type_ID) : ret.val <= j

C18_Witness ==
    /\ ret.fn = "find_by_type"
    /\ ret.type_ID = \H5B
    /\ identifiers[0] = ZeroID
    /\ identifiers[1] = DevD
    /\ identifiers[2] = DevB
    /\ ret.val = 1

\* C19: find_by_ID(value) returns the number of an entry that holds exactly
\* value when there is one and 0xFF when there is none, and the step leaves
\* the table as it was.
C19_FindByID ==
    /\ [](ret.fn = "find_by_ID" =>
            IF \E i \in Slots : identifiers[i] = ret.an_ID
            THEN ret.val \in Slots /\ identifiers[ret.val] = ret.an_ID
            ELSE ret.val = 255)
    /\ [][ret'.fn = "find_by_ID" => identifiers' = identifiers]_vars

C19_Witness ==
    /\ ret.fn = "find_by_ID"
    /\ ret.an_ID = DevD
    /\ identifiers[0] = DevB
    /\ identifiers[2] = DevD
    /\ ret.val = 2

\* C20: get_ID(i) returns entry i for i below AOWI_NUM_IDS and zero for every
\* i from AOWI_NUM_IDS to 255, and the step changes nothing but the value
\* handed back.
C20_GetIDBoundsChecked ==
    /\ [](ret.fn = "get_ID" =>
            /\ ret.which_one < AOWI_NUM_IDS => ret.val = identifiers[ret.which_one]
            /\ ret.which_one >= AOWI_NUM_IDS => ret.val = ZeroID)
    /\ [][ret'.fn = "get_ID" =>
            UNCHANGED <<identifiers, reset_pulse_dur, cfgVars, dbg, my_ds182x,
                        data, pinVars, critical, running, stack, ch, sent, devs, line,
                        dev, echo, minPulse>>]_vars

C20_Witness ==
    /\ ret.fn = "get_ID"
    /\ ret.which_one = 255
    /\ ret.val = ZeroID
    /\ identifiers[0] = DevB

\* C21: read_ID writes 0x33, bit 0 first, and then makes exactly 64 read
\* slots: while the device is sending bit n of its identifier read_ID is
\* filling byte n \div 8 of entry 0 with mask 2^(n % 8), after the 64th slot
\* it reads no more, and it returns with the identifier of the one device on
\* the line in entry 0; no step of it changes another entry.
C21_ReadIDFillsEntryZero ==
    /\ [](Running("read_ID") /\ Top.fn = "read_byte" /\ Top.pc = "sample"
             /\ dev.part # {} =>
            /\ dev.mode = "read"
            /\ Top.dst = TableByte(dev.bit \div 8)
            /\ Top.bmask = Pow2(dev.bit % 8)
            /\ stack[1].index = (dev.bit \div 8) + 1)
    /\ [](Running("read_ID") /\ dev.mode = "func" =>
            /\ stack[1].index = 8
            /\ Top.fn = "read_byte" => (Top.pc = "loop" /\ Top.bmask = 0))
    /\ [](Idle /\ ret.fn = "read_ID" =>
            /\ sent = LsbFirst(51)
            /\ \A x \in devs : devs = {x} => identifiers[0] = x)
    /\ [][Running("read_ID") =>
            \A i \in Slots \ {0} : identifiers'[i] = identifiers[i]]_vars

C21_Witness ==
    /\ Idle
    /\ ret.fn = "read_ID"
    /\ devs = {DevB}
    /\ dev.mode = "func"
    /\ identifiers[0] = DevB
    /\ identifiers[1] = DevD
    /\ identifiers[2] = ZeroID

\* The bit search wrote at position k of the pass in progress (the command
\* byte takes the first 8 write slots after the reset).
WrittenAt(k) == sent[8 + k + 1]

\* The devices still taking part at position k of the pass in progress: those
\* that have the bits written at the positions below k.
PartAt(k) == {x \in devs : \A j \in 0..(k - 1) : IdBit(x, j) = WrittenAt(j)}

\* The positions below n at which the devices taking part differed.
ConflictsBelow(n) ==
    {k \in 0..(n - 1) : {IdBit(x, k) : x \in PartAt(k)} = {0, 1}}

\* The largest member of a non-empty set of numbers.
Max(S) == CHOOSE m \in S : \A k \in S : k <= m

\* C23: in a pass of search on a line of ideal devices, at a position where
\* the devices differ the bit written and recorded is 1 if the position is
\* the conflict position kept from the pass before and 0 otherwise; the
\* position kept by the pass is the highest at which it took 0 so far, none
\* (99) if there is no such, and the conflict flag is set exactly if there is
\* one; the first pass has nothing kept from a pass before.
C23_ConflictBranches ==
    \A f \in Frames :
        (f.fn = "search" /\ f.pc \in {"bit", "pass_end"} /\ f.passes >= 1
              /\ line = "ok" /\ Len(sent) = 8 + f.bit) =>
           LET zeros == {k \in ConflictsBelow(f.bit) : WrittenAt(k) = 0} IN
           /\ \A k \in ConflictsBelow(f.bit) :
                 /\ WrittenAt(k) = (IF k = f.last_hcnf THEN 1 ELSE 0)
                 /\ IdBit(identifiers[f.which_ID], k) = WrittenAt(k)
           /\ f.high_conf = (IF zeros = {} THEN 99 ELSE Max(zeros))
           /\ f.conflict <=> zeros # {}
           /\ f.passes = 1 => f.last_hcnf = 99

C23_Witness ==
    /\ stack # <<>>
    /\ stack[1].fn = "search"
    /\ stack[1].pc = "pass_end"
    /\ stack[1].which_ID = 1
    /\ stack[1].last_hcnf = 0
    /\ stack[1].high_conf = 8
    /\ devs = {DevA, DevB, DevD}
    /\ WrittenAt(0) = 1
    /\ WrittenAt(8) = 0

\* The bits of the command byte 0xF0 as write_byte sends them.
SearchCmdBits == [n \in 1..8 |-> BitOf(CMD_SEARCH_ROM, n - 1)]

\* The read_bit calls search has made when it stands before position bit of
\* its pass.
ReadsBefore(f) == 2 * ID_BITS * (f.passes - 1) + 2 * f.bit

\* The write slots of the positions search has passed in its pass: one each,
\* none for the position of a bit error.
WritesBefore(f) == f.bit - (IF f.bit_error THEN 1 ELSE 0)

\* C24: in every pass of search, after the reset and the command byte 0xF0,
\* the positions follow in ascending order and each is two read slots and
\* then one write slot, with no write slot after the pair 11; every bit
\* recorded equals the bit written, the pair 10 recording and writing 1 and
\* the pair 01 recording and writing 0.
C24_TwoReadsOneWrite ==
    /\ \A f \in Frames :
          (stack = <<f>> /\ f.fn = "search"
                /\ f.pc \in {"bit", "gotA", "gotB", "next", "pass_end"}) =>
             LET done == IF f.pc = "next" THEN f.bit + 1 ELSE f.bit
                 g == [f EXCEPT !.bit = done]
             IN
             /\ f.bit \in 0..ID_BITS
             /\ f.nread = ReadsBefore(f)
                    + (CASE f.pc = "gotA" -> 1
                         [] f.pc \in {"gotB", "next"} -> 2
                         [] OTHER -> 0)
             /\ Len(sent) = 8 + WritesBefore(g)
             /\ SubSeq(sent, 1, 8) = SearchCmdBits
             /\ \A k \in 0..(WritesBefore(g) - 1) :
                   IdBit(identifiers[f.which_ID], k) = WrittenAt(k)
             /\ (f.pc = "next" /\ f.returned_A /\ ~f.returned_B) =>
                   WrittenAt(f.bit) = 1
             /\ (f.pc = "next" /\ ~f.returned_A /\ f.returned_B) =>
                   WrittenAt(f.bit) = 0
             /\ (f.pc = "next" /\ f.returned_A /\ f.returned_B) => f.bit_error
             /\ (f.pc = "pass_end" /\ ~f.bit_error) => f.bit = ID_BITS
    /\ (Len(stack) = 2 /\ stack[1].fn = "search") =>
          /\ stack[1].pc \in {"gotA", "gotB"} => stack[2].fn = "read_bit"
          /\ stack[1].pc \in {"set", "next"} =>
                stack[2].fn \in {"write_0", "write_1"}

C24_Witness ==
    /\ Idle
    /\ ret.fn = "search"
    /\ ret.passes = 2
    /\ ret.bit_error
    /\ ret.bit = 10
    /\ Len(sent) = 8 + 9
    /\ WrittenAt(0) = 1

\* C25: every pass of search that completes its 64 positions on a line of
\* ideal devices stores the identifier of a device on the line: at each
\* position some device still takes part, and after the last one every
\* device that remains has exactly the 64 bits recorded; this is so for any
\* number of devices, more than the table holds included.
C25_PassStoresRealDevice ==
    \A f \in Frames :
        (stack = <<f>> /\ f.fn = "search" /\ f.pc \in {"bit", "pass_end"}
              /\ line = "ok") =>
           /\ ~f.bit_error
           /\ f.bit < ID_BITS =>
                 /\ dev.mode = "search"
                 /\ dev.bit = f.bit
                 /\ dev.part = PartAt(f.bit)
                 /\ dev.part # {}
           /\ f.bit = ID_BITS =>
                 /\ dev.mode = "func"
                 /\ dev.part # {}
                 /\ dev.part \subseteq devs
                 /\ \A x \in dev.part : x = identifiers[f.which_ID]

C25_Witness ==
    /\ stack # <<>>
    /\ stack[1].fn = "search"
    /\ stack[1].pc = "pass_end"
    /\ stack[1].which_ID = 2
    /\ stack[1].conflict
    /\ devs = DevicePool
    /\ dev.part = {identifiers[2]}

\* C27: find_by_ID and find_by_type never hand back the index of an empty
\* (all-zero) entry: for every value and every family code, 0 included, an
\* index other than 0xFF names an entry that holds an identifier.
C27_NeverAnEmptySlot ==
    (Idle /\ ret.fn \in {"find_by_ID", "find_by_type"} /\ ret.val # NOT_FOUND) =>
        identifiers[ret.val] # ZeroID

\* C22: the serial device for diagnostics is never consulted for control
\* flow: whatever step reset, auto_timing or search takes on a line showing
\* given samples, the same step, with the same return value, pin writes,
\* table and position in the code, is the one taken from the same state with
\* the serial device attached instead of absent or absent instead of attached;
\* only what the serial device has received differs.
C22_SinkNeverSteers ==
    [][(reset \/ auto_timing \/ search) =>
          \E d \in DiagPool :
              \/ ResetStepsOn("reset", ~p_serial, d)
              \/ auto_timingOn(~p_serial, d)
              \/ searchOn(~p_serial, d)]_vars

C22_Witness ==
    /\ Idle
    /\ p_serial
    /\ dbg = "1-Wire bit error"
    /\ ret.fn = "search"
    /\ ret.bit_error
    /\ ret.passes = 2

\* C26: reset holds the line low for the calibrated duration: once
\* auto_timing has set reset_pulse_dur, the count of the delay loop of the low
\* pulse of every later reset, those of search included, is reset_pulse_dur.
C26_ResetUsesCalibratedPulse ==
    \A f \in Frames :
        (f.fn = "reset" /\ f.pc \in {"rel", "out1", "check", "poll"}) =>
            f.dur = reset_pulse_dur

\* The bits of a port register other than the pin's.
OtherBits(reg) == AndNot8(reg, data_mask)

\* C28: a bus operation never loses what another task writes to another bit
\* of the port's output or direction register: with task switches anywhere
\* outside critical sections, no step of the bus task changes a bit of the
\* two registers other than the pin's.
C28_NoLostWrite ==
    [][(running = "bus" /\ running' = "bus") =>
          /\ OtherBits(data_ddr') = OtherBits(data_ddr)
          /\ OtherBits(data_outport') = OtherBits(data_outport)]_vars

\* C29: with nothing else writing the port, every operation of the bus
\* changes only the pin's bit of the output register and of the direction
\* register (and never the mask): all their other bits stay as they were.
C29_OnlyThePinsBit ==
    /\ [][OtherBits(data_outport') = OtherBits(data_outport)]_vars
    /\ [][OtherBits(data_ddr') = OtherBits(data_ddr)]_vars
    /\ [][data_mask' = data_mask]_vars

C29_Witness ==
    /\ Idle
    /\ ret.fn = "read_ID"
    /\ identifiers[0] = DevB
    /\ data_mask = 1
    /\ data_outport = \H5B
    /\ data_ddr = \HA4

\* C30: whenever an operation of the bus has returned, and after the
\* constructor, the master has let go of the line: the pin is an input and
\* its pull-up is on, on success and on every failure path.
C30_ReleasedBetweenOperations == Idle => (ddr = 0 /\ outp = 1)

C30_Witness ==
    /\ Idle
    /\ ret.fn = "search"
    /\ ret.bit_error
    /\ data_mask = 1
    /\ data_ddr = \HA4
    /\ data_outport = \H5B

\* C31: right after the constructor, before any search or read_ID, every
\* entry of the table is empty: get_ID gives 0 for every index, and find_by_ID
\* and find_by_type give 0xFF for every argument other than 0.
C31_FreshRegistryEmpty ==
    (Idle /\ ret = NoRet) =>
        /\ \A i \in Byte : get_ID(identifiers, i) = ZeroID
        /\ \A an_ID \in DevicePool : find_by_ID(identifiers, an_ID) = NOT_FOUND
        /\ \A type_ID \in Byte \ {0} :
              find_by_type(identifiers, type_ID) = NOT_FOUND

\* C32: search called twice in a row on a line whose devices stay the same
\* leaves the table after the second call as it was after the first.
C32_SearchTwiceSame ==
    (Idle /\ ret.fn = "search" /\ ret.again) => identifiers = ret.prev

C32_Witness ==
    /\ Idle
    /\ ret.fn = "search"
    /\ ret.again
    /\ devs = DevicePool
    /\ ret.which_ID = AOWI_NUM_IDS
    /\ identifiers = ret.prev
    /\ \A i \in 0..(AOWI_NUM_IDS - 1) : identifiers[i] \in devs

\* The candidates of the sweep of auto_timing, and the values reset_pulse_dur
\* can have once the sweep is over.
SweepCandidates == {d \in 4..98 : d % 2 = 0}

SweepResults == {d + 2 : d \in SweepCandidates} \cup {102}

SweepPcs == {"s_out0", "s_low", "s_rel", "s_out1", "s_check"}

\* C33: auto_timing tries the candidates 4, 6, ..., 98 in this order; the
\* first one after which the line is found low ends the sweep, a candidate
\* after which the line is found high is followed by the next one, and the
\* sweep ends after 98 at 100; then 2 is added once and reset_pulse_dur is
\* not changed again. So after auto_timing reset_pulse_dur is d + 2 for the
\* first working candidate d, or 102, an even value in 6..102.
C33_SweepResult ==
    /\ [](\A f \in Frames :
             f.fn = "auto_timing" =>
                /\ f.pc \in SweepPcs => reset_pulse_dur \in SweepCandidates
                /\ f.pc = "test" => reset_pulse_dur \in SweepCandidates \cup {100}
                /\ f.pc = "add" => reset_pulse_dur + 2 \in SweepResults
                /\ f.pc \notin SweepPcs \cup {"init", "test", "add"} =>
                      reset_pulse_dur \in SweepResults)
    /\ []((Idle /\ ret.fn = "auto_timing") => reset_pulse_dur \in SweepResults)
    /\ [][(stack # <<>> /\ Top.fn = "auto_timing" /\ stack' # stack) =>
             LET pc == Top.pc
                 after == IF stack' = <<>> THEN "returned" ELSE stack'[1].pc
                 low == PresenceSamples(line, dev, -1) = {0}
             IN  CASE pc = "init" ->
                        reset_pulse_dur' = 4 /\ after = "test"
                   [] pc = "test" ->
                        /\ reset_pulse_dur' = reset_pulse_dur
                        /\ after = (IF reset_pulse_dur = 100 THEN "add" ELSE "s_out0")
                   [] pc = "s_check" /\ low ->
                        reset_pulse_dur' = reset_pulse_dur /\ after = "add"
                   [] pc = "s_check" /\ ~low ->
                        reset_pulse_dur' = reset_pulse_dur + 2 /\ after = "test"
                   [] pc = "add" ->
                        reset_pulse_dur' = reset_pulse_dur + 2 /\ after = "a_rel"
                   [] OTHER ->
                        /\ reset_pulse_dur' = reset_pulse_dur
                        /\ after \notin {"init", "test", "add"}
                        /\ after = "s_out0" => pc = "s_out0"]_vars

C33_Witness ==
    /\ Idle
    /\ ret.fn = "auto_timing"
    /\ minPulse = 98
    /\ devs # {}
    /\ line = "ok"
    /\ reset_pulse_dur = 100

\* ------------------------------------------ the temperature sensor driver

\* data.word, the int16_t over the two bytes of the union (the target is
\* little-endian), and the bytes of a word.
Word(b) == LET v == b[0] + 256 * b[1] IN IF v >= 32768 THEN v - 65536 ELSE v

Bytes(w) == [k \in 0..1 |-> IF k = 0 THEN U16(w) % 256 ELSE U16(w) \div 256]

\* The driver selecting by match_ROM whatever ID_index is.
Select_AlwaysMatches(ID_index) == NewMatchROM(ID_index)

\* The selection written out three times in configure and temperature:
\* match_ROM (ID_index) if the sensor has been found in the table, else the
\* skip ROM command.
Select(ID_index) ==
    IF ID_index # \HFF THEN NewMatchROM(ID_index) ELSE NewWriteByte(CMD_SKIP_ROM)

\* avr_ds182x::find_by_ID and find_by_type: the index the bus finds is kept.
ds182x_find_by_ID(ID_to_match) ==
    [my_ds182x EXCEPT !.ID_index = find_by_ID(identifiers, ID_to_match)]

ds182x_find_by_type ==
    [my_ds182x EXCEPT !.ID_index = find_by_type(identifiers, my_ds182x.type_ID)]

NewConfigure(resolution, high_alarm, low_alarm) ==
    [fn |-> "configure", pc |-> "reset1", resolution |-> resolution,
     high_alarm |-> high_alarm, low_alarm |-> low_alarm]

configure ==
    /\ At("configure")
    /\ LET f == Top IN
       \/ /\ f.pc = "reset1"
          /\ Call(Goto(f, "select"), NewReset("reset"))
          /\ ret' = ret
       \/ /\ f.pc = "select"
          /\ ~ret.val
          /\ Return([fn |-> "configure", val |-> FALSE])
       \/ /\ f.pc = "select"
          /\ ret.val
          /\ Call(Goto(f, "cmd"), Select(my_ds182x.ID_index))
          /\ ret' = ret
       \/ /\ f.pc = "cmd"
          /\ Call(Goto(f, "high_alarm"), NewWriteByte(CMD_WRITE_PAD))
          /\ ret' = ret
       \/ /\ f.pc = "high_alarm"
          /\ Call(Goto(f, "low_alarm"), NewWriteByte(f.high_alarm))
          /\ ret' = ret
       \/ /\ f.pc = "low_alarm"
          /\ Call(Goto(f, "resolution"), NewWriteByte(f.low_alarm))
          /\ ret' = ret
       \/ /\ f.pc = "resolution"
          /\ Call(Goto(f, "reset2"), NewWriteByte(f.resolution))
          /\ ret' = ret
       \/ /\ f.pc = "reset2"
          /\ Call(Goto(f, "done"), NewReset("reset"))
          /\ ret' = ret
       \/ /\ f.pc = "done"
          /\ Return([fn |-> "configure", val |-> ret.val])
    /\ UNCHANGED <<busVars, pinVars, critical, running, ch, sent, envVars>>

\* tries counts the passes through the body of the do loop.
NewTemperature ==
    [fn |-> "temperature", pc |-> "do", time_cnt |-> 0, tm_out |-> 0, tries |-> 0]

\* time_cnt++ on the uint16_t counter of the conversion wait: it wraps past
\* the top of its range, which the model puts just above DS182X_RETRIES.
TimeCntNext(time_cnt) == (time_cnt + 1) % (DS182X_RETRIES + 3)

\* The test of the conversion wait: the loop goes on while read_bit returns
\* false; the counter is no part of it.
WaitGoesOn(bit, time_cnt) == ~bit

\* The test of the do loop on the reading: data.word < -80 or > 260.
Unreasonable(word) == word < -80 \/ word > 260

temperature ==
    /\ At("temperature")
    /\ LET f == Top IN
       \/ /\ f.pc = "do"
          /\ Call([f EXCEPT !.pc = "reset1", !.tries = f.tries + 1], NewReset("reset"))
          /\ UNCHANGED <<ret, data>>
       \/ /\ f.pc = "reset1"
          /\ ~ret.val
          /\ SetTop(Goto(f, "while"))
          /\ UNCHANGED <<ret, data>>
       \/ /\ f.pc = "reset1"
          /\ ret.val
          /\ Call(Goto(f, "convert"), Select(my_ds182x.ID_index))
          /\ UNCHANGED <<ret, data>>
       \/ /\ f.pc = "convert"
          /\ Call(Goto(f, "wait"), NewWriteByte(CMD_CONVERT))
          /\ UNCHANGED <<ret, data>>
       \/ /\ f.pc = "wait"
          /\ Call([f EXCEPT !.pc = "polled", !.time_cnt = 0], NewSlot("read_bit"))
          /\ UNCHANGED <<ret, data>>
       \/ /\ f.pc = "polled"
          /\ WaitGoesOn(ret.val, f.time_cnt)
          /\ data' = IF f.time_cnt > DS182X_RETRIES THEN Bytes(-100) ELSE data
          /\ Call([f EXCEPT !.time_cnt = TimeCntNext(f.time_cnt)], NewSlot("read_bit"))
          /\ ret' = ret
       \/ /\ f.pc = "polled"
          /\ ~WaitGoesOn(ret.val, f.time_cnt)
          /\ Call(Goto(f, "reset2"), NewReset("reset"))
          /\ UNCHANGED <<ret, data>>
       \/ /\ f.pc = "reset2"
          /\ data' = IF ~ret.val THEN Bytes(-120) ELSE data
          /\ Call(Goto(f, "read_pad"), Select(my_ds182x.ID_index))
          /\ ret' = ret
       \/ /\ f.pc = "read_pad"
          /\ Call(Goto(f, "byte0"), NewWriteByte(CMD_READ_PAD))
          /\ UNCHANGED <<ret, data>>
       \/ /\ f.pc = "byte0"
          /\ Call(Goto(f, "byte1"), NewReadByte(DataByte(0)))
          /\ UNCHANGED <<ret, data>>
       \/ /\ f.pc = "byte1"
          /\ Call(Goto(f, "reset3"), NewReadByte(DataByte(1)))
          /\ UNCHANGED <<ret, data>>
       \/ /\ f.pc = "reset3"
          /\ Call(Goto(f, "reset3_done"), NewReset("reset"))
          /\ UNCHANGED <<ret, data>>
       \/ /\ f.pc = "reset3_done"
          /\ data' = IF ~ret.val THEN Bytes(-130) ELSE data
          /\ SetTop(Goto(f, "while"))
          /\ ret' = ret
       \/ /\ f.pc = "while"
          /\ f.tm_out < DS182X_MAX_TOUT /\ Unreasonable(Word(data))
          /\ SetTop([f EXCEPT !.tm_out = f.tm_out + 1, !.pc = "do"])
          /\ UNCHANGED <<ret, data>>
       \/ /\ f.pc = "while"
          /\ ~(f.tm_out < DS182X_MAX_TOUT /\ Unreasonable(Word(data)))
          /\ Return([fn |-> "temperature", val |-> Word(data), tries |-> f.tries])
          /\ data' = NoData
    /\ UNCHANGED <<identifiers, reset_pulse_dur, cfgVars, dbg, my_ds182x, pinVars,
                   critical, running, ch, sent, envVars>>

CallSensorFindByID ==
    /\ Idle
    /\ \E ID_to_match \in {SensT, SensU, DevA} : my_ds182x' = ds182x_find_by_ID(ID_to_match)
    /\ ret' = NoRet
    /\ UNCHANGED <<identifiers, reset_pulse_dur, cfgVars, dbg, data, pinVars,
                   critical, running, stack, ch, sent, envVars>>

CallSensorFindByType ==
    /\ Idle
    /\ my_ds182x' = ds182x_find_by_type
    /\ ret' = NoRet
    /\ UNCHANGED <<identifiers, reset_pulse_dur, cfgVars, dbg, data, pinVars,
                   critical, running, stack, ch, sent, envVars>>

\* configure with 12 bits resolution and the default alarm values.
CallConfigure ==
    /\ Idle
    /\ stack' = <<NewConfigure(\H7F, \H70, \HE0)>>
    /\ ret' = NoRet
    /\ UNCHANGED <<busVars, pinVars, critical, running, ch, sent, envVars>>

\* The union data is not initialised: it holds a reasonable reading or an
\* unreasonable one when temperature is entered.
CallTemperature ==
    /\ Idle
    /\ stack' = <<NewTemperature>>
    /\ ret' = NoRet
    /\ \E w \in {0, -100} : data' = Bytes(w)
    /\ UNCHANGED <<identifiers, reset_pulse_dur, cfgVars, dbg, my_ds182x, pinVars,
                   critical, running, ch, sent, envVars>>

\* A table with two entries filled.
SensorTable(a, b) ==
    [i \in 0..(AOWI_NUM_IDS - 1) |-> CASE i = 0 -> a [] i = 1 -> b [] OTHER -> ZeroID]

\* The driver on a bus whose table holds its sensor or not, with sensors
\* on the line or none, and a line that may be stuck low.
InitSensor ==
    /\ AsBuilt
    /\ identifiers \in {ZeroTable, SensorTable(DevB, SensU), SensorTable(SensT, SensU)}
    /\ reset_pulse_dur = RESET_D(F_CPU)
    /\ Wired(7, 0, 0, FALSE)
    /\ critical = 0
    /\ running = "bus"
    /\ stack = <<>>
    /\ ret = NoRet
    /\ ch = 0
    /\ sent = <<>>
    /\ devs \in {{}, {SensT}, {SensT, SensU}, {DevB, SensU}}
    /\ line \in {"ok", "short"}
    /\ dev = DevIdle
    /\ echo = <<>>
    /\ minPulse = 4

\* The steps of the task that uses the driver.
SensorSteps ==
    \/ configure
    \/ temperature
    \/ reset
    \/ match_ROM
    \/ write_byte
    \/ read_byte
    \/ write_0
    \/ write_1
    \/ read_bit

NextSensor ==
    \/ CallSensorFindByID
    \/ CallSensorFindByType
    \/ CallConfigure
    \/ CallTemperature
    \/ SensorSteps

SpecSensor == InitSensor /\ [][NextSensor]_vars

\* The task that uses the driver is never starved: a step it can take is
\* taken.
SpecSensorLive == InitSensor /\ [][NextSensor]_vars /\ WF_vars(SensorSteps)

\* C34: for every processor clock rate the delay counts keep the slots
\* asymmetric and in bounds: the count of the short low pulse (AOWI_1us_D) is
\* below the count of the read sample delay (AOWI_15us_D), which is below the
\* count of the long low pulse (AOWI_90us_D), and the retry ceiling
\* AOWI_PRES_END is F_CPU / 100, not cut to 16 bits.
C34_DelayCountsKeepOrder ==
    /\ D_1us(F_CPU) < D_15us(F_CPU)
    /\ D_15us(F_CPU) < D_90us(F_CPU)
    /\ PRES_END(F_CPU) = F_CPU \div 100

\* The frames of the driver that are at the return point of a selection.
Selecting(f) ==
    \/ f.fn = "configure" /\ f.pc = "cmd"
    \/ f.fn = "temperature" /\ f.pc \in {"convert", "read_pad"}

\* C35: in the temperature sensor driver ID_index is 0xFF or an index below
\* AOWI_NUM_IDS at all times, match_ROM runs only with an index below
\* AOWI_NUM_IDS, so that get_ID_bit is never evaluated on an entry outside
\* the table, and a selection made while ID_index is 0xFF is the write of the
\* broadcast command 0xCC, while one made with an index is match_ROM with
\* that index.
C35_IndexInsideTable ==
    /\ my_ds182x.ID_index = \HFF \/ my_ds182x.ID_index < AOWI_NUM_IDS
    /\ \A i \in 1..Len(stack) :
          stack[i].fn = "match_ROM" => stack[i].index < AOWI_NUM_IDS
    /\ \A i \in 1..(Len(stack) - 1) :
          Selecting(stack[i]) =>
             IF my_ds182x.ID_index = \HFF
             THEN /\ stack[i + 1].fn = "write_byte"
                  /\ stack[i + 1].the_byte = \HCC
             ELSE /\ stack[i + 1].fn = "match_ROM"
                  /\ stack[i + 1].index = my_ds182x.ID_index

C35_Witness ==
    /\ Len(stack) = 3
    /\ stack[1].fn = "temperature"
    /\ stack[1].pc = "read_pad"
    /\ stack[1].tries = 2
    /\ my_ds182x.ID_index = 1
    /\ stack[2].fn = "match_ROM"
    /\ stack[2].bit = 8
    /\ stack[3].fn = "write_1"

\* C36: temperature always returns: its wait for the end of the conversion
\* is left once the counter is past DS182X_RETRIES even if read_bit keeps
\* returning false, and the body of its do loop runs at most
\* DS182X_MAX_TOUT + 1 times.
C36_TemperatureReturns ==
    /\ [](\A i \in 1..Len(stack) :
            stack[i].fn = "temperature" => stack[i].tries <= DS182X_MAX_TOUT + 1)
    /\ (stack # <<>> /\ stack[1].fn = "temperature") ~> (ret.fn = "temperature")

====
